---- MODULE Spec2Model ----
(***************************************************************************)
(* Confidential Storage Core of coldProxy: key store, SetupService.setPin, *)
(* UnlockService (PIN unlock, failure accounting, MK cache with idle TTL,   *)
(* DEK materialisation, WebAuthn unlock), and the HTTP layer in front of it: *)
(* route table with its middleware, rate limiter, kill switch, sessions.    *)
(* Beside them, each under a specification of its own: the key-store,       *)
(* interaction and cipher-blob repositories, the AsyncDbWriter, the         *)
(* sessions Map of session.ts by id, the key of the rate-limit middleware,  *)
(* and the PersonalModeLLMMonitor.                                          *)
(*                                                                          *)
(* Cryptography is symbolic: random bytes are named by the call that drew   *)
(* them, a ciphertext remembers its plaintext, nonce and wrapping key, and  *)
(* AEAD decryption succeeds exactly with the same key and nonce.  A Promise *)
(* is a value of its own (t = "promise"), distinct from the bytes it will   *)
(* settle to.  Date.now() is the variable now, in milliseconds.             *)
(***************************************************************************)
EXTENDS Integers, Sequences, FiniteSets, Bags, TLC

VARIABLES
    now,          \* Date.now()
    keyStore,     \* key_store table: id -> KeyStoreItem
    mkCache,      \* UnlockService.mkCache, a Map in insertion order
    pinFailures,  \* UnlockService.pinFailures: userId -> {count, lastAttempt}
    calls,        \* async calls in flight, each suspended at an await (a bag:
                  \* calls have no identity beyond what they hold)
    setPinCalls,  \* number of setPin calls started per user (names the random bytes)
    lastReturn,   \* what the most recently finished call gave its caller
    attempts,     \* history: wrong-PIN attempts made per user, as the contract counts them
    outcomes,     \* history: the result of the first wrong-PIN call on a provisioned user
                  \* (known) and on a user with no record (unknown)
    expiredSeen,  \* history: users whose cache entry was dropped on an access after
                  \* more than the idle TTL without one
    cacheHistory, \* history: per cached user, when the MK was cached by an unlock
                  \* and when the entry was last cached or read
    killSwitch,   \* the flag behind config.getKillSwitch()
    rateLimiters, \* the two RateLimiter stores of the router: key -> {count, startTime}
    sessions,     \* the session objects reachable from the sessions Map; a cookie
                  \* names its object (every id saved for an object aliases it)
    requests,     \* HTTP requests whose handler is suspended in an Unlock Service call
    lastResponse, \* what the most recently answered request got, and what it met
    arrivals,     \* history: per limiter and key, the requests to the routes behind
                  \* the limiter: how many, when the first came, whether the kill
                  \* switch stopped any, and when the limiter let requests through
                  \* during the last window
    interactions, \* interactions table: id -> header row
    cipherBlobs,  \* cipher_blobs table: id -> blob row
    writer,       \* the AsyncDbWriter: its fields, where its processQueue run and
                  \* its dispose call stand, and the history of its jobs
    sessionMap,   \* session.ts sessions Map as such: session id -> session object,
                  \* and the history of the last save
    monitor,      \* PersonalModeLLMMonitor: tracked interactions and sessions
    kekBuffer     \* the bytes left in the KEK buffer of the unlockWithPin call that
                  \* returned last

coreVars == <<now, keyStore, mkCache, pinFailures, calls, setPinCalls, lastReturn,
              attempts, outcomes, expiredSeen, cacheHistory>>

httpVars == <<killSwitch, rateLimiters, sessions, requests, lastResponse, arrivals>>

dataVars == <<interactions, cipherBlobs, writer, sessionMap, monitor>>

elseVars == <<dataVars, kekBuffer>>

vars == <<coreVars, httpVars, elseVars>>

----------------------------------------------------------------------------
(* Bounds of the model *)

MaxTicks == 4
MaxCalls == 2
MaxSetPin == 2
MaxCacheTicks == 1

Users == {1}
Pins == {"1234", "0000"}
TimeStep == 15 * 60 * 1000

----------------------------------------------------------------------------
(* Program constants *)

mkCacheTTL == 30 * 60 * 1000
pinLockoutDuration == 15 * 60 * 1000
maxPinAttempts == 5
mkCacheCapacity == 100

----------------------------------------------------------------------------
(* Values *)

Null == [t |-> "null"]
Bytes(id) == [t |-> "bytes", id |-> id]
Promise(v) == [t |-> "promise", settled |-> v]
Failure(name) == [t |-> "error", name |-> name]
IsBytes(v) == v.t \in {"bytes", "kek"}

\* Buffer.from(x).toString("hex") and Buffer.from(h, "hex")
ToHex(b) == [t |-> "hex", of |-> b]
FromHex(h) == h.of

\* CryptoService.generateKey: fresh random bytes, named by the drawing call
generateKey(user, n, what) == Bytes(<<user, n, what>>)

\* CryptoService.deriveKeyFromPin (Argon2id): a function of pin and salt
deriveKeyFromPin(pin, salt) == [t |-> "kek", pin |-> pin, salt |-> salt]

\* CryptoService.aeadEncrypt
aeadEncrypt(plaintext, nonce, key) ==
    [t |-> "ct", pt |-> plaintext, nonce |-> nonce, key |-> key]

\* CryptoService.aeadDecrypt: the value the returned promise settles to
aeadDecrypt(ciphertext, nonce, key) ==
    IF ~IsBytes(key) THEN Failure("TypeError")
    ELSE IF ciphertext.key.t = key.t /\ ciphertext.key = key /\ ciphertext.nonce = nonce
         THEN ciphertext.pt
         ELSE Failure("DecryptFailed")

\* CryptoService.wrapKey
wrapKey(keyToWrap, wrappingKey, nonce) ==
    [ciphertext |-> aeadEncrypt(keyToWrap, nonce, wrappingKey), nonce |-> nonce]

\* CryptoService.unwrapKey is an async method: a call never throws, it
\* returns a promise that settles to the key or rejects.
unwrapKey(ciphertext, nonce, wrappingKey) ==
    [threw |-> FALSE, value |-> Promise(aeadDecrypt(ciphertext, nonce, wrappingKey))]

----------------------------------------------------------------------------
(* Key store *)

DekId(u) == <<"dek", u>>
MkPinId(u) == <<"mk_pin", u>>

\* KeyStoreRepository.findById
findById(ks, id) == IF id \in DOMAIN ks THEN ks[id] ELSE Null

\* key_store.id is the primary key: an INSERT of an existing id fails (Conflict)
CreateConflicts(ks, id) == id \in DOMAIN ks

\* KeyStoreRepository.create
keyStoreCreate(ks, item) == ks @@ (item.id :> item)

----------------------------------------------------------------------------
(* MK cache: a Map, kept as the sequence of its entries in insertion order *)

CacheIndex(cache, u) ==
    IF \E i \in 1 .. Len(cache) : cache[i].userId = u
    THEN CHOOSE i \in 1 .. Len(cache) : cache[i].userId = u
    ELSE 0

CacheUsers(cache) == {cache[i].userId : i \in 1 .. Len(cache)}

\* Map.delete
MapDelete(cache, u) == SelectSeq(cache, LAMBDA e : e.userId # u)

\* Map.set: an existing key keeps its place, a new key goes last
MapSet(cache, u, entry) ==
    IF CacheIndex(cache, u) # 0
    THEN [cache EXCEPT ![CacheIndex(cache, u)] = entry]
    ELSE Append(cache, entry)

\* mutant of CacheEntryLive: the expiry is never looked at
CacheEntryLive_NeverExpires(entry, t) == TRUE

\* the test of getMasterKeyFromCache: cached && cached.expires > Date.now()
CacheEntryLive(entry, t) == entry.expires > t

\* the expiry a read or an insertion gives an entry
RefreshedExpiry(t) == t + mkCacheTTL

\* mutant of getMasterKeyFromCache: a read does not reset the TTL
getMasterKeyFromCache_NoRefresh(cache, u, t) ==
    LET i == CacheIndex(cache, u) IN
    IF i # 0 /\ CacheEntryLive(cache[i], t)
    THEN [key |-> cache[i].key, cache |-> cache]
    ELSE [key |-> Null, cache |-> MapDelete(cache, u)]

\* UnlockService.getMasterKeyFromCache: the key (or Null) and the cache afterwards
getMasterKeyFromCache(cache, u, t) ==
    LET i == CacheIndex(cache, u) IN
    IF i # 0 /\ CacheEntryLive(cache[i], t)
    THEN [key |-> cache[i].key,
          cache |-> [cache EXCEPT ![i].expires = RefreshedExpiry(t)]]
    ELSE [key |-> Null, cache |-> MapDelete(cache, u)]

\* mutant of EvictIfFull: the size test is off by one
EvictIfFull_OffByOne(cache) ==
    IF Len(cache) > mkCacheCapacity THEN Tail(cache) ELSE cache

\* the eviction step of setMasterKeyInCache
EvictIfFull(cache) ==
    IF Len(cache) >= mkCacheCapacity THEN Tail(cache) ELSE cache

\* UnlockService.setMasterKeyInCache
setMasterKeyInCache(cache, u, key, t) ==
    MapSet(EvictIfFull(cache), u,
           [userId |-> u, key |-> key, expires |-> RefreshedExpiry(t)])

----------------------------------------------------------------------------
(* PIN failures *)

PinFailuresGet(pf, u) == IF u \in DOMAIN pf THEN pf[u] ELSE Null

FailureCount(pf, u) == IF u \in DOMAIN pf THEN pf[u].count ELSE 0

\* mutant of AfterRejection: a rejected attempt restarts the lockout window
AfterRejection_ExtendsWindow(pf, u, t) ==
    [pf EXCEPT ![u].lastAttempt = t]

\* the failure records after a call is rejected with AccountLocked: the throw
\* comes before any write
AfterRejection(pf, u, t) == pf

\* the lockout test at the head of unlockWithPin
IsLockedOut(failureInfo, t) ==
    /\ failureInfo # Null
    /\ failureInfo.count >= maxPinAttempts
    /\ t - failureInfo.lastAttempt < pinLockoutDuration

----------------------------------------------------------------------------
(* Calls in flight and history *)

\* a suspended call: where it waits and the locals it holds across the await
Call(pc, u, pin, failureInfo, item, n, expect) ==
    [pc |-> pc, userId |-> u, pin |-> pin, failureInfo |-> failureInfo,
     item |-> item, n |-> n, expect |-> expect]

InFlight == BagToSet(calls)

Suspend(c) == calls (+) SetToBag({c})

Resume(c) == calls (-) SetToBag({c})

\* result is what the caller gets ("value": bytes or a promise, held in
\* value); note is history: for unlockWithPin where the contract puts the
\* call, for getDecryptedDek the cache entry the call met
NoReturn ==
    [op |-> "none", userId |-> 0, pin |-> "", result |-> "none",
     value |-> Null, note |-> "none"]

Returned(op, u, pin, result, value, note) ==
    [op |-> op, userId |-> u, pin |-> pin, result |-> result,
     value |-> value, note |-> note]

Provisioned(ks, u) == MkPinId(u) \in DOMAIN ks

\* the PIN, MK and DEK that the stored records of u were made from by setPin
ProvisionedPin(ks, u) == ks[MkPinId(u)].blob.key.pin
ProvisionedMk(ks, u) == ks[MkPinId(u)].blob.pt
ProvisionedDek(ks, u) == ks[DekId(u)].blob.pt

\* a PIN that is not the one given to setPin (any PIN, for a user with no record)
WrongPin(ks, u, pin) == ~Provisioned(ks, u) \/ ProvisionedPin(ks, u) # pin

\* where the contract puts a call that starts at t: "locked" after
\* maxPinAttempts wrong PINs with the last one less than the lockout window
\* ago, "afterLockout" once that window has passed, else "open"
Expectation(att, t) ==
    IF att.count < maxPinAttempts THEN "open"
    ELSE IF t - att.last < pinLockoutDuration THEN "locked" ELSE "afterLockout"

\* the contract's count after a call settles at t: a locked-out call is not
\* counted, a wrong PIN adds one, a correct PIN clears; the count stops at the
\* threshold and the time of the last attempt is kept from there on
Counted(att, wrong, expect, t) ==
    IF expect = "locked" THEN att
    ELSE IF wrong
         THEN IF att.count + 1 < maxPinAttempts
              THEN [count |-> att.count + 1, last |-> 0]
              ELSE [count |-> maxPinAttempts, last |-> t]
         ELSE [count |-> 0, last |-> 0]

Logged(log, wrong, known, result) ==
    IF ~wrong THEN log
    ELSE IF known /\ log.known = "none" THEN [log EXCEPT !.known = result]
    ELSE IF ~known /\ log.unknown = "none" THEN [log EXCEPT !.unknown = result]
    ELSE log

NoHistory == [cachedAt |-> 0, accessedAt |-> 0]

\* history is kept for the users in the cache only
Kept(cache, hist) ==
    [u \in DOMAIN hist |-> IF u \in CacheUsers(cache) THEN hist[u] ELSE NoHistory]

\* how long the entry of u has gone without being cached or read, against
\* the idle TTL: "fresh" less, "due" exactly, "stale" more; "absent" without entry
IdleState(cache, hist, u, t) ==
    IF u \notin CacheUsers(cache) THEN "absent"
    ELSE IF t - hist[u].accessedAt < mkCacheTTL THEN "fresh"
    ELSE IF t - hist[u].accessedAt = mkCacheTTL THEN "due"
    ELSE "stale"

\* a new call may start while fewer than limit calls are in flight
CanStart(limit) == BagCardinality(calls) < limit

----------------------------------------------------------------------------
(* HTTP layer: state *)

Ips == {"203.0.113.7"}
LimiterNames == {"unlock", "export"}

\* a session field that is not set (undefined)
NoUser == 0
NoChallenge == ""
NoTime == -1

\* getSession for a request without a known cookie: {} (verifiedAt is
\* history: when a WebAuthn finish last answered this session with success)
EmptySession ==
    [userId |-> NoUser, challenge |-> NoChallenge, lastUVAt |-> NoTime,
     verifiedAt |-> NoTime]

NoCookie == 0

NoArrivals ==
    [watched |-> TRUE, count |-> 0, first |-> 0, killed |-> FALSE, admitted |-> <<>>]

\* no history is kept where the limiter is not what is looked at
Unwatched == [NoArrivals EXCEPT !.watched = FALSE]

\* met is history: what the request met when it was dispatched
NoResponse ==
    [route |-> "none", ip |-> "", cookie |-> NoCookie, status |-> "none",
     success |-> FALSE, handled |-> FALSE, met |-> Null]

\* a fresh router: kill switch off, empty limiter stores, no session
HttpInit ==
    /\ killSwitch = FALSE
    /\ rateLimiters = [l \in LimiterNames |-> <<>>]
    /\ sessions = <<>>
    /\ requests = EmptyBag
    /\ lastResponse = NoResponse
    /\ arrivals = [l \in LimiterNames |-> [ip \in Ips |-> NoArrivals]]

\* the KEK buffers are not followed where they are not what is looked at
Unkept == [t |-> "unkept"]

\* session.ts at module load: an empty sessions Map (ids are numbered in the
\* order randomUUID drew them, each naming a session object), no session
\* object made yet; history: the cookie the last saving request carried and
\* the id its response set
NoSessions ==
    [map |-> <<>>, objects |-> 0, last |-> [carried |-> 0, issued |-> 0]]

\* new PersonalModeLLMMonitor(dbOps) after initializeTables(): no session, an
\* empty personal_interactions table (a bag of rows), no quota set; history:
\* the session ids that cleanup has removed, and per user with a quota the
\* tokens and requests tracked since the quota was set or last reset
NewMonitor ==
    [sessions |-> <<>>, rows |-> EmptyBag, quotas |-> <<>>, expired |-> {},
     tracked |-> <<>>]

\* no job: what a processQueue run that is not suspended at a job holds
NoJob == [n |-> 0, fails |-> FALSE]

\* new AsyncDbWriter(): the fields set by the field initialisers and the
\* constructor (the interval timer is running); current is the job the
\* processQueue run is suspended at, dispose is where the dispose call
\* stands; history: the jobs enqueue accepted, the jobs that ran to their end
\* and the jobs that threw, what the last enqueue returned, the jobs called
\* (in the order of the calls) and the jobs called and not yet settled
NewWriter ==
    [queue |-> <<>>, running |-> FALSE, intervalId |-> TRUE, queueDepth |-> 0,
     droppedJobs |-> 0, totalJobs |-> 0,
     current |-> NoJob, dispose |-> "none",
     accepted |-> {}, finished |-> {}, failed |-> {}, lastEnqueue |-> "none",
     started |-> <<>>, executing |-> {}]

\* the tables, writer, session Map and monitor of a fresh process
ElseInit ==
    /\ interactions = <<>>
    /\ cipherBlobs = <<>>
    /\ writer = NewWriter
    /\ sessionMap = NoSessions
    /\ monitor = NewMonitor
    /\ kekBuffer = Unkept

----------------------------------------------------------------------------
(* Initial state: a fresh process on an empty key store *)

Init ==
    /\ now = 0
    /\ keyStore = <<>>
    /\ mkCache = <<>>
    /\ pinFailures = <<>>
    /\ calls = EmptyBag
    /\ setPinCalls = [u \in Users |-> 0]
    /\ lastReturn = NoReturn
    /\ attempts = [u \in Users |-> [count |-> 0, last |-> 0]]
    /\ outcomes = [known |-> "none", unknown |-> "none"]
    /\ expiredSeen = {}
    /\ cacheHistory = [u \in Users |-> NoHistory]
    /\ HttpInit
    /\ ElseInit

----------------------------------------------------------------------------
(* SetupService.setPin *)

\* the record dek_<u> of the n-th setPin call for u
DekItem(u, n) ==
    LET mk == generateKey(u, n, "mk")
        dek == generateKey(u, n, "dek")
        wrappedDek == wrapKey(dek, mk, generateKey(u, n, "dek_nonce"))
    IN [id |-> DekId(u), type |-> "data_encryption_key",
        blob |-> wrappedDek.ciphertext, nonce |-> ToHex(wrappedDek.nonce),
        meta |-> [version |-> 1]]

\* the record mk_pin_<u> of the n-th setPin call for u
MkPinItem(u, n, pin) ==
    LET mk == generateKey(u, n, "mk")
        salt == generateKey(u, n, "salt")
        kek == deriveKeyFromPin(pin, salt)
        wrappedMk == wrapKey(mk, kek, generateKey(u, n, "mk_nonce"))
    IN [id |-> MkPinId(u), type |-> "master_key_pin",
        blob |-> wrappedMk.ciphertext, nonce |-> ToHex(wrappedMk.nonce),
        meta |-> [salt |-> ToHex(salt)]]

\* setPin up to its first key-store write: MK and DEK are drawn, the DEK is
\* wrapped with the MK and dek_<u> is created; the call then suspends in the
\* PIN key derivation
SetPinBegin(limit, u, pin) ==
    LET n == setPinCalls[u] + 1
        item == DekItem(u, n)
    IN
    /\ CanStart(limit)
    /\ setPinCalls[u] < MaxSetPin
    /\ setPinCalls' = [setPinCalls EXCEPT ![u] = n]
    /\ IF CreateConflicts(keyStore, item.id)
       THEN /\ lastReturn' = Returned("setPin", u, pin, "Conflict", Null, "none")
            /\ UNCHANGED <<keyStore, calls>>
       ELSE /\ keyStore' = keyStoreCreate(keyStore, item)
            /\ calls' = Suspend(Call("setPin_derive", u, pin, Null, Null, n, "none"))
            /\ UNCHANGED lastReturn
    /\ UNCHANGED <<now, mkCache, pinFailures, attempts, outcomes, expiredSeen, cacheHistory>>

\* setPin after the derivation: the MK is wrapped with the KEK and
\* mk_pin_<u> is created
SetPinFinish(c) ==
    LET u == c.userId
        item == MkPinItem(u, c.n, c.pin)
    IN
    /\ c \in InFlight
    /\ c.pc = "setPin_derive"
    /\ calls' = Resume(c)
    /\ IF CreateConflicts(keyStore, item.id)
       THEN /\ lastReturn' = Returned("setPin", u, c.pin, "Conflict", Null, "none")
            /\ UNCHANGED keyStore
       ELSE /\ keyStore' = keyStoreCreate(keyStore, item)
            /\ lastReturn' = Returned("setPin", u, c.pin, "ok", Null, "none")
    /\ UNCHANGED <<now, mkCache, pinFailures, setPinCalls, attempts, outcomes, expiredSeen, cacheHistory>>

----------------------------------------------------------------------------
(* UnlockService.unlockWithPin *)

\* crypto_pwhash in the dummy derivation is handed the unawaited promise of
\* generateKey(16) as its salt; the hashing library lies outside the
\* repository, so the call may reject (the caller sees the error) or proceed
\* (the caller sees false)
DummyDeriveResults == {"false", "TypeError"}

\* a buffer after zeroize(bytes)
Zeroized == Bytes("zeroized")

\* the KEK buffer of unlockWithPin when the call returns: nothing overwrites
\* it on any path
StackKek(kek) == kek

\* unlockWithPin up to its await: the lockout test on the failure record read
\* now, the lookup of mk_pin_<u>, and the start of the key derivation
UnlockStart(limit, u, pin) ==
    LET failureInfo == PinFailuresGet(pinFailures, u)
        wrappedMkItem == findById(keyStore, MkPinId(u))
        expect == Expectation(attempts[u], now)
    IN
    /\ CanStart(limit)
    /\ IF IsLockedOut(failureInfo, now)
       THEN /\ lastReturn' = Returned("unlockWithPin", u, pin, "AccountLocked", Null, expect)
            /\ outcomes' = Logged(outcomes, WrongPin(keyStore, u, pin),
                                   Provisioned(keyStore, u), "AccountLocked")
            /\ UNCHANGED calls
       ELSE /\ calls' = Suspend(Call(IF wrappedMkItem = Null \/ wrappedMkItem.meta = Null
                                      THEN "unlock_dummy" ELSE "unlock_derive",
                                      u, pin, failureInfo, wrappedMkItem, 0, expect))
            /\ UNCHANGED <<lastReturn, outcomes>>
    /\ pinFailures' = IF IsLockedOut(failureInfo, now)
                    THEN AfterRejection(pinFailures, u, now)
                    ELSE pinFailures
    /\ UNCHANGED <<now, keyStore, mkCache, setPinCalls, attempts, expiredSeen, cacheHistory>>

\* the missing-record path after its dummy derivation
UnlockDummyFinish(c) ==
    LET u == c.userId IN
    /\ c \in InFlight
    /\ c.pc = "unlock_dummy"
    /\ \E result \in DummyDeriveResults :
          /\ lastReturn' = Returned("unlockWithPin", u, c.pin, result, Null,
                                    c.expect)
          /\ outcomes' = Logged(outcomes, TRUE, FALSE, result)
          /\ kekBuffer' = IF kekBuffer = Unkept THEN kekBuffer
                          ELSE IF result = "false"
                          THEN StackKek(deriveKeyFromPin(c.pin, Promise(generateKey(u, 0, "salt"))))
                          ELSE Null
    /\ calls' = Resume(c)
    /\ UNCHANGED <<now, keyStore, mkCache, pinFailures, setPinCalls, attempts, expiredSeen, cacheHistory>>

\* unlockWithPin after the derivation: the try block around unwrapKey, with
\* the record and the failure info that were read before the await
\* (counting: whether the history of attempts is kept in this specification)
UnlockFinish(c, counting) ==
    LET u == c.userId
        pin == c.pin
        wrappedMkItem == c.item
        failureInfo == c.failureInfo
        salt == FromHex(wrappedMkItem.meta.salt)
        kek == deriveKeyFromPin(pin, salt)
        mk == unwrapKey(wrappedMkItem.blob, FromHex(wrappedMkItem.nonce), kek)
        wrong == ProvisionedPin(keyStore, u) # pin
        result == IF mk.threw THEN "false" ELSE "true"
    IN
    /\ c \in InFlight
    /\ c.pc = "unlock_derive"
    /\ IF ~mk.threw
       THEN /\ mkCache' = setMasterKeyInCache(mkCache, u, mk.value, now)
            /\ pinFailures' = [v \in DOMAIN pinFailures \ {u} |-> pinFailures[v]]
       ELSE /\ pinFailures' =
                  [v \in DOMAIN pinFailures \cup {u} |->
                      IF v = u
                      THEN [count |-> (IF failureInfo # Null THEN failureInfo.count ELSE 0) + 1,
                            lastAttempt |-> now]
                      ELSE pinFailures[v]]
            /\ UNCHANGED mkCache
    /\ lastReturn' = Returned("unlockWithPin", u, pin, result, Null, c.expect)
    /\ kekBuffer' = IF kekBuffer = Unkept THEN kekBuffer ELSE StackKek(kek)
    /\ attempts' = IF counting
                   THEN [attempts EXCEPT ![u] = Counted(@, wrong, c.expect, now)]
                   ELSE attempts
    /\ outcomes' = Logged(outcomes, wrong, TRUE, result)
    /\ calls' = Resume(c)
    /\ cacheHistory' = IF ~mk.threw
                       THEN Kept(mkCache', [cacheHistory EXCEPT ![u] =
                                               [cachedAt |-> now, accessedAt |-> now]])
                       ELSE cacheHistory
    /\ UNCHANGED <<now, keyStore, setPinCalls, expiredSeen>>

----------------------------------------------------------------------------
(* UnlockService.getDecryptedDek *)

GetDecryptedDek(u) ==
    LET got == getMasterKeyFromCache(mkCache, u, now)
        wrappedDekItem == findById(keyStore, DekId(u))
        dek == unwrapKey(wrappedDekItem.blob, FromHex(wrappedDekItem.nonce), got.key)
        returned == IF got.key = Null THEN Null
                    ELSE IF wrappedDekItem = Null THEN Null
                    ELSE IF dek.threw THEN Null
                    ELSE dek.value
        met == IdleState(mkCache, cacheHistory, u, now)
    IN
    /\ mkCache' = got.cache
    /\ lastReturn' = Returned("getDecryptedDek", u, "",
                              IF returned = Null THEN "null" ELSE "value", returned, met)
    /\ expiredSeen' = IF met = "stale" THEN expiredSeen \cup {u} ELSE expiredSeen
    /\ cacheHistory' = Kept(mkCache', IF returned # Null
                                      THEN [cacheHistory EXCEPT ![u].accessedAt = now]
                                      ELSE cacheHistory)
    /\ UNCHANGED <<now, keyStore, pinFailures, calls, setPinCalls, attempts, outcomes>>

----------------------------------------------------------------------------
(* The clock *)

TickUpTo(ticks) ==
    /\ now < ticks * TimeStep
    /\ now' = now + TimeStep
    /\ UNCHANGED <<keyStore, mkCache, pinFailures, calls, setPinCalls, lastReturn,
                   attempts, outcomes, expiredSeen, cacheHistory>>

Tick == TickUpTo(MaxTicks)

----------------------------------------------------------------------------

Next ==
    \/ (\E u \in Users, pin \in Pins : SetPinBegin(MaxCalls, u, pin)) /\ UNCHANGED <<httpVars, elseVars>>
    \/ (\E c \in InFlight : SetPinFinish(c)) /\ UNCHANGED <<httpVars, elseVars>>
    \/ (\E u \in Users, pin \in Pins : UnlockStart(MaxCalls, u, pin)) /\ UNCHANGED <<httpVars, elseVars>>
    \/ (\E c \in InFlight : UnlockDummyFinish(c)) /\ UNCHANGED <<httpVars, dataVars>>
    \/ (\E c \in InFlight : UnlockFinish(c, FALSE)) /\ UNCHANGED <<httpVars, dataVars>>
    \/ (\E u \in Users : GetDecryptedDek(u)) /\ UNCHANGED <<httpVars, elseVars>>
    \/ Tick /\ UNCHANGED <<httpVars, elseVars>>

Spec == Init /\ [][Next]_vars

\* The exit paths of unlockWithPin, one caller at a time, with the KEK
\* buffer of the call followed
InitKek ==
    /\ now = 0
    /\ keyStore = <<>>
    /\ mkCache = <<>>
    /\ pinFailures = <<>>
    /\ calls = EmptyBag
    /\ setPinCalls = [u \in Users |-> 0]
    /\ lastReturn = NoReturn
    /\ attempts = [u \in Users |-> [count |-> 0, last |-> 0]]
    /\ outcomes = [known |-> "none", unknown |-> "none"]
    /\ expiredSeen = {}
    /\ cacheHistory = [u \in Users |-> NoHistory]
    /\ HttpInit
    /\ interactions = <<>>
    /\ cipherBlobs = <<>>
    /\ writer = NewWriter
    /\ sessionMap = NoSessions
    /\ monitor = NewMonitor
    /\ kekBuffer = Null

NextKek ==
    \/ (\E u \in Users, pin \in Pins : SetPinBegin(1, u, pin)) /\ UNCHANGED <<httpVars, elseVars>>
    \/ (\E c \in InFlight : SetPinFinish(c)) /\ UNCHANGED <<httpVars, elseVars>>
    \/ (\E u \in Users, pin \in Pins : UnlockStart(1, u, pin)) /\ UNCHANGED <<httpVars, elseVars>>
    \/ (\E c \in InFlight : UnlockDummyFinish(c)) /\ UNCHANGED <<httpVars, dataVars>>
    \/ (\E c \in InFlight : UnlockFinish(c, FALSE)) /\ UNCHANGED <<httpVars, dataVars>>

SpecKek == InitKek /\ [][NextKek]_vars

\* One caller at a time, with the history of attempts kept
NextLockout ==
    \/ (\E u \in Users, pin \in Pins : SetPinBegin(1, u, pin)) /\ UNCHANGED <<httpVars, elseVars>>
    \/ (\E c \in InFlight : SetPinFinish(c)) /\ UNCHANGED <<httpVars, elseVars>>
    \/ (\E u \in Users, pin \in Pins : UnlockStart(1, u, pin)) /\ UNCHANGED <<httpVars, elseVars>>
    \/ (\E c \in InFlight : UnlockDummyFinish(c)) /\ UNCHANGED <<httpVars, dataVars>>
    \/ (\E c \in InFlight : UnlockFinish(c, TRUE)) /\ UNCHANGED <<httpVars, dataVars>>
    \/ Tick /\ UNCHANGED <<httpVars, elseVars>>

SpecLockout == Init /\ [][NextLockout]_vars

----------------------------------------------------------------------------
(* The MK cache near its capacity: one user more than the cache holds are   *)
(* provisioned, and all but the last two have unlocked, in the order of     *)
(* their ids, one entry short of the capacity.                              *)

CachePin == "1234"
CacheAllUsers == 1 .. mkCacheCapacity + 1
CacheUnlocked == 1 .. mkCacheCapacity - 1
CacheActors == {2, mkCacheCapacity, mkCacheCapacity + 1}
CacheReaders == {1, 2}

InitCache ==
    /\ now = 0
    /\ keyStore = [id \in {DekId(u) : u \in CacheAllUsers} \cup
                          {MkPinId(u) : u \in CacheAllUsers} |->
                      IF id[1] = "dek" THEN DekItem(id[2], 1)
                      ELSE MkPinItem(id[2], 1, CachePin)]
    /\ mkCache = [i \in CacheUnlocked |->
                     [userId |-> i,
                      key |-> unwrapKey(MkPinItem(i, 1, CachePin).blob,
                                        FromHex(MkPinItem(i, 1, CachePin).nonce),
                                        deriveKeyFromPin(CachePin,
                                                         generateKey(i, 1, "salt"))).value,
                      expires |-> RefreshedExpiry(0)]]
    /\ pinFailures = <<>>
    /\ calls = EmptyBag
    /\ setPinCalls = [u \in CacheAllUsers |-> 1]
    /\ lastReturn = NoReturn
    /\ attempts = [u \in CacheActors |-> [count |-> 0, last |-> 0]]
    /\ outcomes = [known |-> "none", unknown |-> "none"]
    /\ expiredSeen = {}
    /\ cacheHistory = [u \in CacheAllUsers |-> NoHistory]
    /\ HttpInit
    /\ ElseInit

NextCache ==
    \/ (\E u \in CacheActors : UnlockStart(1, u, CachePin)) /\ UNCHANGED <<httpVars, elseVars>>
    \/ (\E c \in InFlight : UnlockFinish(c, FALSE)) /\ UNCHANGED <<httpVars, dataVars>>
    \/ (\E u \in CacheReaders : GetDecryptedDek(u)) /\ UNCHANGED <<httpVars, elseVars>>
    \/ (TickUpTo(MaxCacheTicks)) /\ UNCHANGED <<httpVars, elseVars>>

SpecCache == InitCache /\ [][NextCache]_vars

----------------------------------------------------------------------------
(* HTTP layer: rate limiter, kill switch, session gate, route table *)

MaxOver == 2
MaxRateTicks == 4
RateStep == 20 * 1000

unlockMaxRequests == 5
exportMaxRequests == 2
windowMs == 60000

LimiterOptions ==
    [unlock |-> [maxRequests |-> unlockMaxRequests, windowMs |-> windowMs],
     export |-> [maxRequests |-> exportMaxRequests, windowMs |-> windowMs]]

Exceeds_AtLimit(count, maxRequests) == count >= maxRequests

Exceeds(count, maxRequests) == count > maxRequests

limit_RefusalRestartsWindow(store, key, t, options) ==
    LET info == IF key \in DOMAIN store THEN store[key]
                ELSE [count |-> 0, startTime |-> t]
        current == IF info.startTime < t - options.windowMs
                   THEN [count |-> 0, startTime |-> t]
                   ELSE info
        counted == [current EXCEPT !.count = @ + 1]
        limited == Exceeds(counted.count, options.maxRequests)
    IN [store |-> (key :> IF limited THEN [counted EXCEPT !.startTime = t]
                          ELSE counted) @@ store,
        limited |-> limited]

\* RateLimiter.limit: the store after the call and whether the request is over
\* the limit
limit(store, key, t, options) ==
    LET info == IF key \in DOMAIN store THEN store[key]
                ELSE [count |-> 0, startTime |-> t]
        current == IF info.startTime < t - options.windowMs
                   THEN [count |-> 0, startTime |-> t]
                   ELSE info
        counted == [current EXCEPT !.count = @ + 1]
    IN [store |-> (key :> counted) @@ store,
        limited |-> Exceeds(counted.count, options.maxRequests)]

FRESH_WEBAUTHN_TTL == 5 * 60 * 1000

\* JavaScript's !v for the values a session field takes
Falsy(v) == v = NoTime \/ v = 0

StaleWebAuthn_AtBoundary(session, t) ==
    Falsy(session.lastUVAt) \/ t - session.lastUVAt >= FRESH_WEBAUTHN_TTL

\* the test of requireFreshWebAuthn
StaleWebAuthn(session, t) ==
    Falsy(session.lastUVAt) \/ t - session.lastUVAt > FRESH_WEBAUTHN_TTL

Routes ==
    {"POST:/unlock/pin", "POST:/unlock/webauthn/challenge",
     "POST:/unlock/webauthn/finish", "POST:/api/admin/kill-switch",
     "GET:/export", "POST:/rotate-key", "GET:/decrypt/:id"}

RouteGuards_DecryptOpen(route) ==
    CASE route = "POST:/unlock/pin" -> <<"killSwitch", "unlock">>
      [] route = "POST:/unlock/webauthn/challenge" -> <<"killSwitch", "unlock">>
      [] route = "POST:/unlock/webauthn/finish" -> <<"killSwitch", "unlock">>
      [] route = "POST:/api/admin/kill-switch" -> <<"freshWebAuthn">>
      [] route = "GET:/export" -> <<"killSwitch", "export", "freshWebAuthn">>
      [] route = "POST:/rotate-key" -> <<"killSwitch", "freshWebAuthn">>
      [] route = "GET:/decrypt/:id" -> <<>>

RouteGuards_RotateOpen(route) ==
    CASE route = "POST:/unlock/pin" -> <<"killSwitch", "unlock">>
      [] route = "POST:/unlock/webauthn/challenge" -> <<"killSwitch", "unlock">>
      [] route = "POST:/unlock/webauthn/finish" -> <<"killSwitch", "unlock">>
      [] route = "POST:/api/admin/kill-switch" -> <<"freshWebAuthn">>
      [] route = "GET:/export" -> <<"killSwitch", "export", "freshWebAuthn">>
      [] route = "POST:/rotate-key" -> <<"killSwitch">>
      [] route = "GET:/decrypt/:id" -> <<"killSwitch">>

\* the middleware around each route's handler, outermost first; a limiter is
\* named by its store
RouteGuards(route) ==
    CASE route = "POST:/unlock/pin" -> <<"killSwitch", "unlock">>
      [] route = "POST:/unlock/webauthn/challenge" -> <<"killSwitch", "unlock">>
      [] route = "POST:/unlock/webauthn/finish" -> <<"killSwitch", "unlock">>
      [] route = "POST:/api/admin/kill-switch" -> <<"freshWebAuthn">>
      [] route = "GET:/export" -> <<"killSwitch", "export", "freshWebAuthn">>
      [] route = "POST:/rotate-key" -> <<"killSwitch", "freshWebAuthn">>
      [] route = "GET:/decrypt/:id" -> <<"killSwitch">>

\* the limiter in front of a route, "none" without one
RouteLimiter(route) ==
    LET named == {l \in LimiterNames :
                     \E i \in 1 .. Len(RouteGuards(route)) : RouteGuards(route)[i] = l}
    IN IF named = {} THEN "none" ELSE CHOOSE l \in named : TRUE

\* the middleware chain run at time t: "handler" when the request gets
\* through, else the error thrown; stores are the limiter stores afterwards
RECURSIVE RunGuards(_, _, _, _, _, _)
RunGuards(guards, ip, session, switch, stores, t) ==
    IF guards = <<>> THEN [status |-> "handler", stores |-> stores]
    ELSE LET g == Head(guards)
             rest == Tail(guards)
         IN IF g = "killSwitch"
            THEN IF switch
                 THEN [status |-> "ServiceUnavailable", stores |-> stores]
                 ELSE RunGuards(rest, ip, session, switch, stores, t)
            ELSE IF g = "freshWebAuthn"
            THEN IF StaleWebAuthn(session, t)
                 THEN [status |-> "Forbidden", stores |-> stores]
                 ELSE RunGuards(rest, ip, session, switch, stores, t)
            ELSE LET r == limit(stores[g], ip, t, LimiterOptions[g])
                     counted == [stores EXCEPT ![g] = r.store]
                 IN IF r.limited
                    THEN [status |-> "TooManyRequests", stores |-> counted]
                    ELSE RunGuards(rest, ip, session, switch, counted, t)

getSession(cookie) == IF cookie = NoCookie THEN EmptySession ELSE sessions[cookie]

Cookies == {NoCookie} \cup DOMAIN sessions

\* the user of the session has a live MK cache entry
Unlocked(session, t) ==
    /\ session.userId # NoUser
    /\ session.userId \in CacheUsers(mkCache)
    /\ CacheEntryLive(mkCache[CacheIndex(mkCache, session.userId)], t)

Met(session) ==
    [killSwitch |-> killSwitch, userId |-> session.userId,
     lastUVAt |-> session.lastUVAt, unlocked |-> Unlocked(session, now)]

Response(route, ip, cookie, status, success, handled, met) ==
    [route |-> route, ip |-> ip, cookie |-> cookie, status |-> status,
     success |-> success, handled |-> handled, met |-> met]

\* the times in log later than t - span
Since(log, t, span) == SelectSeq(log, LAMBDA at : at > t - span)

\* history of a request to a route behind a limiter
Arrived(log, route, ip, status) ==
    LET l == RouteLimiter(route)
        was == log[l][ip]
        recent == Since(was.admitted, now, LimiterOptions[l].windowMs)
    IN IF l = "none" THEN log
       ELSE IF ~was.watched THEN log
       ELSE [log EXCEPT ![l][ip] =
               [watched |-> TRUE,
                count |-> was.count + 1,
                first |-> IF was.count = 0 THEN now ELSE was.first,
                killed |-> was.killed \/ status = "ServiceUnavailable",
                admitted |-> IF status \in {"ServiceUnavailable", "TooManyRequests"}
                             THEN recent ELSE Append(recent, now)]]

\* requests to the routes behind a limiter are made until there are MaxOver
\* more than the limiter lets through
MayArrive(route, ip) ==
    IF RouteLimiter(route) = "none" THEN TRUE
    ELSE arrivals[RouteLimiter(route)][ip].count
            < LimiterOptions[RouteLimiter(route)].maxRequests + MaxOver

\* the middleware of a route, for the request of ip with cookie: the limiter
\* stores are updated, and a request that is stopped is answered with the error
Dispatch(route, ip, cookie) ==
    RunGuards(RouteGuards(route), ip, getSession(cookie), killSwitch, rateLimiters, now)

Refused(route, ip, cookie) ==
    LET d == Dispatch(route, ip, cookie) IN
    /\ MayArrive(route, ip)
    /\ d.status # "handler"
    /\ rateLimiters' = d.stores
    /\ arrivals' = Arrived(arrivals, route, ip, d.status)
    /\ lastResponse' = Response(route, ip, cookie, d.status, FALSE, FALSE,
                                 Met(getSession(cookie)))
    /\ UNCHANGED <<coreVars, killSwitch, sessions, requests>>

\* a request gets through the middleware of its route
Admitted(route, ip, cookie) ==
    LET d == Dispatch(route, ip, cookie) IN
    /\ MayArrive(route, ip)
    /\ d.status = "handler"
    /\ rateLimiters' = d.stores
    /\ arrivals' = Arrived(arrivals, route, ip, d.status)

\* GET /export, POST /rotate-key, GET /decrypt/:id: the handler answers at once
PlainRoutes == {"GET:/export", "POST:/rotate-key", "GET:/decrypt/:id"}

HttpPlain(route, ip, cookie) ==
    /\ route \in PlainRoutes
    /\ Admitted(route, ip, cookie)
    /\ lastResponse' = Response(route, ip, cookie, "ok", TRUE, TRUE,
                                 Met(getSession(cookie)))
    /\ UNCHANGED <<coreVars, killSwitch, sessions, requests>>

\* POST /api/admin/kill-switch {enabled}
HttpSetKillSwitch(ip, cookie, enabled) ==
    /\ Admitted("POST:/api/admin/kill-switch", ip, cookie)
    /\ killSwitch' = enabled
    /\ lastResponse' = Response("POST:/api/admin/kill-switch", ip, cookie, "ok", TRUE,
                                 TRUE, Met(getSession(cookie)))
    /\ UNCHANGED <<coreVars, sessions, requests>>

----------------------------------------------------------------------------
(* POST /unlock/pin *)

MaxSessions == 2

\* saveSession: a session object that came from a cookie is the one in the
\* Map already (the new id aliases it); an object made by getSession for a
\* request without one enters the Map
saveSession(cookie, session) ==
    IF cookie = NoCookie THEN Append(sessions, session)
    ELSE [sessions EXCEPT ![cookie] = session]

\* a request without a cookie may add a session object
MayOpenSession(cookie) ==
    cookie = NoCookie =>
       /\ Len(sessions) < MaxSessions
       /\ \A r \in BagToSet(requests) : r.cookie # NoCookie

PinSession_MarksVerified(session, u) ==
    [session EXCEPT !.userId = u, !.lastUVAt = now]

\* what the PIN handler writes into the session on success
PinSession(session, u) == [session EXCEPT !.userId = u]

\* the handler runs unlockWithPin up to its await
HttpUnlockPinStart(slots, ip, cookie, u, pin) ==
    LET route == "POST:/unlock/pin" IN
    /\ MayOpenSession(cookie)
    /\ Admitted(route, ip, cookie)
    /\ UnlockStart(slots, u, pin)
    /\ IF BagCardinality(calls') = BagCardinality(calls)
       THEN /\ lastResponse' = Response(route, ip, cookie, "AccountLocked", FALSE, TRUE,
                                        Met(getSession(cookie)))
            /\ UNCHANGED requests
       ELSE /\ requests' = requests (+) SetToBag({
                   [route |-> route, ip |-> ip, cookie |-> cookie,
                    call |-> CHOOSE c \in BagToSet(calls') :
                                c \notin InFlight
                                   \/ CopiesIn(c, calls') > CopiesIn(c, calls),
                    met |-> Met(getSession(cookie))]})
            /\ UNCHANGED lastResponse
    /\ UNCHANGED <<killSwitch, sessions>>

\* unlockWithPin settles and the handler answers
HttpUnlockPinFinish(r, counting) ==
    /\ r \in BagToSet(requests)
    /\ r.route = "POST:/unlock/pin"
    /\ UnlockFinish(r.call, counting) \/ UnlockDummyFinish(r.call)
    /\ requests' = requests (-) SetToBag({r})
    /\ IF lastReturn'.result = "true"
       THEN /\ sessions' = saveSession(r.cookie,
                                       PinSession(getSession(r.cookie), r.call.userId))
            /\ lastResponse' = Response(r.route, r.ip, r.cookie, "ok", TRUE, TRUE, r.met)
       ELSE /\ UNCHANGED sessions
            /\ lastResponse' =
                  Response(r.route, r.ip, r.cookie,
                           IF lastReturn'.result = "false" THEN "ok"
                           ELSE "InternalServerError", FALSE, TRUE, r.met)
    /\ UNCHANGED <<killSwitch, rateLimiters, arrivals>>

\* Date.now() moves on by step, as far as until
Advance(step, until) ==
    /\ now < until
    /\ now' = now + step
    /\ UNCHANGED <<keyStore, mkCache, pinFailures, calls, setPinCalls, lastReturn,
                   attempts, outcomes, expiredSeen, cacheHistory, httpVars>>

----------------------------------------------------------------------------
(* WebAuthn unlock: POST /unlock/webauthn/challenge and /finish *)

MaxCounter == 2

Credentials == {"credA"}
AssertionIds == Credentials \cup {"credX"}
Challenges == {"ch1"}

Fido2Id(u, credentialId) == <<"fido2", u, credentialId>>
MkFidoId(u) == <<"mk_fido", u>>

\* HKDF over challenge, credential id and signature, with the salt
deriveKeyFromWebAuthn(challenge, credentialId, signature, salt) ==
    [t |-> "kek", ikm |-> <<challenge, credentialId, signature>>, salt |-> salt]

\* the signature of an authenticator over one challenge and counter value
Signature(credentialId, challenge, counter) ==
    Bytes(<<"sig", credentialId, challenge, counter>>)

\* an assertion response as a client can send it: signed tells whether the
\* signature is the authenticator's
Assertions ==
    [id : AssertionIds, challenge : Challenges, counter : 1 .. MaxCounter,
     signed : BOOLEAN]

\* the record of a registered authenticator, its counter as stored
Fido2Item(u, credentialId, counter) ==
    [id |-> Fido2Id(u, credentialId), type |-> <<"fido2", u>>, blob |-> Null,
     nonce |-> Null,
     meta |-> [credentialID |-> credentialId,
               credentialPublicKey |-> <<"publicKey", credentialId>>,
               counter |-> counter,
               salt |-> ToHex(generateKey(u, 1, "fido_salt"))]]

\* the MK of u wrapped with the KEK derived at registration
MkFidoItem(u, credentialId) ==
    LET mk == generateKey(u, 1, "mk")
        kek == deriveKeyFromWebAuthn("registration", credentialId,
                                     Signature(credentialId, "registration", 0),
                                     generateKey(u, 1, "fido_salt"))
        wrappedMk == wrapKey(mk, kek, generateKey(u, 1, "mk_fido_nonce"))
    IN [id |-> MkFidoId(u), type |-> "master_key_fido",
        blob |-> wrappedMk.ciphertext, nonce |-> ToHex(wrappedMk.nonce),
        meta |-> Null]

\* an argument that the caller left out
Undefined == [t |-> "undefined"]

\* meta || null
MetaOrNull(meta) == IF meta = Undefined \/ meta = Null THEN Null ELSE meta

\* KeyStoreRepository.update: no row with the id, no change
keyStoreUpdate(ks, id, blob, nonce, meta) ==
    IF id \in DOMAIN ks
    THEN [ks EXCEPT ![id] = [@ EXCEPT !.blob = blob, !.nonce = nonce,
                                      !.meta = MetaOrNull(meta)]]
    ELSE ks

StoredCounter(ks, u, credentialId) == ks[Fido2Id(u, credentialId)].meta.counter

\* verifyAuthenticationResponse: the challenge must be the expected one (else
\* it throws), the signature must verify, and the counter must be greater
\* than the authenticator's (else it throws)
verifyAuthenticationResponse(response, expectedChallenge, authenticator) ==
    IF response.challenge # expectedChallenge
    THEN [threw |-> TRUE, verified |-> FALSE, newCounter |-> 0]
    ELSE IF ~response.signed
    THEN [threw |-> FALSE, verified |-> FALSE, newCounter |-> 0]
    ELSE IF response.counter <= authenticator.counter
    THEN [threw |-> TRUE, verified |-> FALSE, newCounter |-> 0]
    ELSE [threw |-> FALSE, verified |-> TRUE, newCounter |-> response.counter]

\* the KEK that unlockWithWebAuthn derives from an assertion
AssertionKek(assertion, fido2Key) ==
    deriveKeyFromWebAuthn(assertion.challenge, assertion.id,
                          Signature(assertion.id, assertion.challenge, assertion.counter),
                          FromHex(fido2Key.meta.salt))

\* whether that KEK unwraps the stored mk_fido record
Unwraps(item, kek) == IsBytes(aeadDecrypt(item.blob, FromHex(item.nonce), kek))

MayStartRequest(slots) == BagCardinality(requests) < slots

\* POST /unlock/webauthn/challenge: the challenge drawn by the library is
\* put into the session
HttpWebAuthnChallenge(ip, cookie, u, challenge) ==
    LET route == "POST:/unlock/webauthn/challenge" IN
    /\ MayOpenSession(cookie)
    /\ Admitted(route, ip, cookie)
    /\ sessions' = saveSession(cookie, [getSession(cookie) EXCEPT !.challenge = challenge])
    /\ lastResponse' = Response(route, ip, cookie, "ok", TRUE, TRUE, Met(getSession(cookie)))
    /\ UNCHANGED <<coreVars, killSwitch, requests>>

\* what the finish handler writes into the session
FinishSession(session, u, success) ==
    IF success
    THEN [session EXCEPT !.lastUVAt = now, !.userId = u, !.verifiedAt = now]
    ELSE session

\* the finish handler answers after unlockWithWebAuthn returned success
FinishAnswered(r, success) ==
    /\ sessions' = saveSession(r.cookie,
                               FinishSession(getSession(r.cookie), r.call.userId, success))
    /\ lastResponse' = Response(r.route, r.ip, r.cookie, "ok", success, TRUE, r.met)

\* the finish handler catches what unlockWithWebAuthn threw
FinishFailed(r) ==
    /\ lastResponse' = Response(r.route, r.ip, r.cookie, "InternalServerError", FALSE,
                                 TRUE, r.met)
    /\ UNCHANGED sessions

\* POST /unlock/webauthn/finish up to the await of the verification: the
\* challenge is read from the session and the credential record looked up
HttpWebAuthnFinishStart(slots, ip, cookie, u, assertion) ==
    LET route == "POST:/unlock/webauthn/finish"
        session == getSession(cookie)
        fido2Key == findById(keyStore, Fido2Id(u, assertion.id))
        r == [route |-> route, ip |-> ip, cookie |-> cookie,
              call |-> [pc |-> "webauthn_verify", userId |-> u,
                        assertion |-> assertion,
                        expectedChallenge |-> session.challenge,
                        fido2Key |-> fido2Key],
              met |-> Met(session)]
    IN
    /\ MayStartRequest(slots)
    /\ MayOpenSession(cookie)
    /\ Admitted(route, ip, cookie)
    /\ IF fido2Key = Null \/ fido2Key.meta = Null
       THEN /\ FinishAnswered(r, FALSE)
            /\ lastReturn' = Returned("unlockWithWebAuthn", u, "", "false", Null, "unknown")
            /\ UNCHANGED requests
       ELSE /\ requests' = requests (+) SetToBag({r})
            /\ UNCHANGED <<sessions, lastResponse, lastReturn>>
    /\ UNCHANGED <<now, keyStore, mkCache, pinFailures, calls, setPinCalls, attempts,
                   outcomes, expiredSeen, cacheHistory, killSwitch>>

\* the verification settles, against the counter read before the await; a
\* verified assertion has its counter written and the KEK derivation starts
HttpWebAuthnVerified(r) ==
    LET call == r.call
        fido2Key == call.fido2Key
        v == verifyAuthenticationResponse(call.assertion, call.expectedChallenge,
                                          [counter |-> fido2Key.meta.counter])
        newMeta == [fido2Key.meta EXCEPT !.counter = v.newCounter]
    IN
    /\ r \in BagToSet(requests)
    /\ r.route = "POST:/unlock/webauthn/finish"
    /\ call.pc = "webauthn_verify"
    /\ IF v.threw
       THEN /\ FinishFailed(r)
            /\ lastReturn' = Returned("unlockWithWebAuthn", call.userId, "", "Error", Null,
                                      "rejected")
            /\ requests' = requests (-) SetToBag({r})
            /\ UNCHANGED keyStore
       ELSE IF ~v.verified
       THEN /\ FinishAnswered(r, FALSE)
            /\ lastReturn' = Returned("unlockWithWebAuthn", call.userId, "", "false", Null,
                                      "rejected")
            /\ requests' = requests (-) SetToBag({r})
            /\ UNCHANGED keyStore
       ELSE /\ keyStore' = keyStoreUpdate(keyStore, fido2Key.id, fido2Key.blob,
                                          fido2Key.nonce, newMeta)
            /\ requests' = (requests (-) SetToBag({r}))
                              (+) SetToBag({[r EXCEPT !.call.pc = "webauthn_derive"]})
            /\ UNCHANGED <<sessions, lastResponse, lastReturn>>
    /\ UNCHANGED <<now, mkCache, pinFailures, calls, setPinCalls, attempts, outcomes,
                   expiredSeen, cacheHistory, killSwitch, rateLimiters, arrivals>>

\* the KEK derivation settles: mk_fido_<u> is looked up and unwrapped, the
\* result cached, and the handler marks the session
HttpWebAuthnFinish(r) ==
    LET call == r.call
        u == call.userId
        kek == AssertionKek(call.assertion, call.fido2Key)
        wrappedMkItem == findById(keyStore, MkFidoId(u))
        mk == unwrapKey(wrappedMkItem.blob, FromHex(wrappedMkItem.nonce), kek)
    IN
    /\ r \in BagToSet(requests)
    /\ r.route = "POST:/unlock/webauthn/finish"
    /\ call.pc = "webauthn_derive"
    /\ requests' = requests (-) SetToBag({r})
    /\ IF wrappedMkItem = Null
       THEN /\ FinishAnswered(r, FALSE)
            /\ lastReturn' = Returned("unlockWithWebAuthn", u, "", "false", Null, "verified")
            /\ UNCHANGED <<mkCache, cacheHistory>>
       ELSE /\ mkCache' = setMasterKeyInCache(mkCache, u, mk.value, now)
            /\ cacheHistory' = Kept(mkCache', [cacheHistory EXCEPT ![u] =
                                                  [cachedAt |-> now, accessedAt |-> now]])
            /\ FinishAnswered(r, TRUE)
            /\ lastReturn' = Returned("unlockWithWebAuthn", u, "", "true", Null,
                                      IF Unwraps(wrappedMkItem, kek) THEN "unwraps"
                                      ELSE "mismatch")
    /\ UNCHANGED <<now, keyStore, pinFailures, calls, setPinCalls, attempts, outcomes,
                   expiredSeen, killSwitch, rateLimiters, arrivals>>

----------------------------------------------------------------------------
(* The unlock limiter under load, from the initial state: PIN requests from *)
(* one address, the clock in steps of a third of the window.  No user is    *)
(* provisioned, so every admitted request runs the missing-record path of   *)
(* unlockWithPin.                                                           *)

HttpPin == "1234"

NextRate ==
    \/ (\E ip \in Ips, cookie \in Cookies, u \in Users :
          HttpUnlockPinStart(1, ip, cookie, u, HttpPin)) /\ UNCHANGED elseVars
    \/ (\E r \in BagToSet(requests) : HttpUnlockPinFinish(r, FALSE)) /\ UNCHANGED dataVars
    \/ (\E ip \in Ips, cookie \in Cookies : Refused("POST:/unlock/pin", ip, cookie))
          /\ UNCHANGED elseVars
    \/ Advance(RateStep, MaxRateTicks * RateStep) /\ UNCHANGED elseVars

SpecRate == Init /\ [][NextRate]_vars

----------------------------------------------------------------------------
(* WebAuthn and PIN unlock over HTTP: user 1 has set a PIN and registered   *)
(* one authenticator (counter 0); one browser, which keeps the session it   *)
(* was given, asks for challenges and sends assertions and the PIN, up to   *)
(* MaxCalls requests at a time and MaxUnlockAsks requests in all.           *)

MaxUnlockAsks == 3
MaxUnlockTicks == 2
GateStep == 150 * 1000

InitWebAuthn ==
    /\ now = GateStep
    /\ keyStore = (DekId(1) :> DekItem(1, 1)) @@ (MkPinId(1) :> MkPinItem(1, 1, HttpPin))
                     @@ (Fido2Id(1, "credA") :> Fido2Item(1, "credA", 0))
                     @@ (MkFidoId(1) :> MkFidoItem(1, "credA"))
    /\ mkCache = <<>>
    /\ pinFailures = <<>>
    /\ calls = EmptyBag
    /\ setPinCalls = [u \in Users |-> 1]
    /\ lastReturn = NoReturn
    /\ attempts = [u \in Users |-> [count |-> 0, last |-> 0]]
    /\ outcomes = [known |-> "none", unknown |-> "none"]
    /\ expiredSeen = {}
    /\ cacheHistory = [u \in Users |-> NoHistory]
    /\ killSwitch = FALSE
    /\ rateLimiters = [l \in LimiterNames |-> <<>>]
    /\ sessions = <<>>
    /\ requests = EmptyBag
    /\ lastResponse = NoResponse
    /\ arrivals = [l \in LimiterNames |-> [ip \in Ips |-> NoArrivals]]
    /\ ElseInit

\* the cookie of a browser that keeps the session it was given
ClientCookies == IF sessions = <<>> THEN {NoCookie} ELSE DOMAIN sessions

\* fewer than asks requests were made to the routes behind the limiter of route
Asked(route, ip, asks) ==
    IF RouteLimiter(route) = "none" THEN TRUE
    ELSE arrivals[RouteLimiter(route)][ip].count < asks

\* the request is at most the asks-th that the limiter of the route counts
\* in its window
MayAsk(route, ip, asks) ==
    LET l == RouteLimiter(route) IN
    IF l = "none" THEN TRUE
    ELSE limit(rateLimiters[l], ip, now, LimiterOptions[l]).store[ip].count <= asks

NextWebAuthn ==
    \/ \E ip \in Ips, cookie \in ClientCookies, u \in Users, challenge \in Challenges :
          /\ Asked("POST:/unlock/webauthn/challenge", ip, MaxUnlockAsks)
          /\ HttpWebAuthnChallenge(ip, cookie, u, challenge)
          /\ UNCHANGED elseVars
    \/ \E ip \in Ips, cookie \in ClientCookies, u \in Users, assertion \in Assertions :
          /\ Asked("POST:/unlock/webauthn/finish", ip, MaxUnlockAsks)
          /\ HttpWebAuthnFinishStart(MaxCalls, ip, cookie, u, assertion)
          /\ UNCHANGED elseVars
    \/ \E r \in BagToSet(requests) : HttpWebAuthnVerified(r) /\ UNCHANGED elseVars
    \/ \E r \in BagToSet(requests) : HttpWebAuthnFinish(r) /\ UNCHANGED elseVars
    \/ \E ip \in Ips, cookie \in ClientCookies, u \in Users :
          /\ Asked("POST:/unlock/pin", ip, MaxUnlockAsks)
          /\ MayStartRequest(MaxCalls)
          /\ HttpUnlockPinStart(MaxCalls, ip, cookie, u, HttpPin)
          /\ UNCHANGED elseVars
    \/ \E r \in BagToSet(requests) : HttpUnlockPinFinish(r, FALSE) /\ UNCHANGED dataVars
    \/ Advance(GateStep, MaxUnlockTicks * GateStep) /\ UNCHANGED elseVars

SpecWebAuthn == InitWebAuthn /\ [][NextWebAuthn]_vars

----------------------------------------------------------------------------
(* The routes behind the kill switch and the session gate: the browser of   *)
(* user 1 has just finished a WebAuthn unlock (challenge, then an assertion *)
(* with counter 1) in a new session; requests with and without its cookie   *)
(* to the routes, the clock in steps of half the freshness window.          *)

MaxGateTicks == 4
MaxGateAsks == 3

InitGate ==
    /\ now = GateStep
    /\ keyStore = (DekId(1) :> DekItem(1, 1)) @@ (MkPinId(1) :> MkPinItem(1, 1, HttpPin))
                     @@ (Fido2Id(1, "credA") :> Fido2Item(1, "credA", 1))
                     @@ (MkFidoId(1) :> MkFidoItem(1, "credA"))
    /\ mkCache = setMasterKeyInCache(<<>>, 1,
                     unwrapKey(keyStore[MkFidoId(1)].blob,
                               FromHex(keyStore[MkFidoId(1)].nonce),
                               AssertionKek([id |-> "credA", challenge |-> "ch1",
                                             counter |-> 1, signed |-> TRUE],
                                            Fido2Item(1, "credA", 0))).value,
                     now)
    /\ pinFailures = <<>>
    /\ calls = EmptyBag
    /\ setPinCalls = [u \in Users |-> 1]
    /\ lastReturn = NoReturn
    /\ attempts = [u \in Users |-> [count |-> 0, last |-> 0]]
    /\ outcomes = [known |-> "none", unknown |-> "none"]
    /\ expiredSeen = {}
    /\ cacheHistory = [u \in Users |-> [cachedAt |-> now, accessedAt |-> now]]
    /\ killSwitch = FALSE
    /\ rateLimiters =
          [l \in LimiterNames |->
              IF l = "unlock"
              THEN limit(limit(<<>>, "203.0.113.7", now, LimiterOptions[l]).store,
                         "203.0.113.7", now, LimiterOptions[l]).store
              ELSE <<>>]
    /\ sessions = <<FinishSession([EmptySession EXCEPT !.challenge = "ch1"], 1, TRUE)>>
    /\ requests = EmptyBag
    /\ lastResponse = NoResponse
    /\ arrivals = [l \in LimiterNames |-> [ip \in Ips |-> Unwatched]]
    /\ ElseInit

NextGate ==
    \/ \E ip \in Ips, cookie \in ClientCookies, u \in Users, challenge \in Challenges :
          /\ MayAsk("POST:/unlock/webauthn/challenge", ip, MaxGateAsks)
          /\ HttpWebAuthnChallenge(ip, cookie, u, challenge)
          /\ UNCHANGED elseVars
    \/ \E route \in PlainRoutes, ip \in Ips, cookie \in Cookies :
          MayAsk(route, ip, MaxGateAsks) /\ HttpPlain(route, ip, cookie)
             /\ UNCHANGED elseVars
    \/ \E ip \in Ips, cookie \in Cookies, enabled \in BOOLEAN :
          HttpSetKillSwitch(ip, cookie, enabled) /\ UNCHANGED elseVars
    \/ \E route \in Routes, ip \in Ips, cookie \in Cookies :
          MayAsk(route, ip, MaxGateAsks) /\ Refused(route, ip, cookie)
             /\ UNCHANGED elseVars
    \/ Advance(GateStep, MaxGateTicks * GateStep) /\ UNCHANGED elseVars

SpecGate == InitGate /\ [][NextGate]_vars

----------------------------------------------------------------------------
(* KeyStoreRepository as such: create, update and delete of rows by id, on   *)
(* a table that starts empty.                                                *)

MaxStoreBlobs == 2

StoreIds == {DekId(1), MkPinId(1), MkFidoId(1)}
StoreBlobs == {Bytes(<<"blob", i>>) : i \in 1 .. MaxStoreBlobs}
StoreMetas == {Null, [counter |-> 1]}

StoreItem(id, blob, meta) ==
    [id |-> id, type |-> id[1], blob |-> blob, nonce |-> ToHex(Bytes("nonce")),
     meta |-> meta]

\* KeyStoreRepository.delete
keyStoreDelete(ks, id) == [i \in DOMAIN ks \ {id} |-> ks[i]]

\* a call of KeyStoreRepository.create; note is whether a row with the id
\* was there
KeyStoreCreate(item) ==
    IF CreateConflicts(keyStore, item.id)
    THEN /\ lastReturn' = Returned("keyStore.create", 0, "", "Conflict", Null, "present")
         /\ UNCHANGED keyStore
    ELSE /\ keyStore' = keyStoreCreate(keyStore, item)
         /\ lastReturn' = Returned("keyStore.create", 0, "", "ok", Null, "missing")

\* a call of KeyStoreRepository.update: the UPDATE statement runs and the
\* method returns, whatever the number of rows it changed
KeyStoreUpdate(id, blob, nonce, meta) ==
    /\ keyStore' = keyStoreUpdate(keyStore, id, blob, nonce, meta)
    /\ lastReturn' = Returned("keyStore.update", 0, "", "ok", Null,
                              IF id \in DOMAIN keyStore THEN "present" ELSE "missing")

\* a call of KeyStoreRepository.delete
KeyStoreDelete(id) ==
    /\ keyStore' = keyStoreDelete(keyStore, id)
    /\ lastReturn' = Returned("keyStore.delete", 0, "", "ok", Null,
                              IF id \in DOMAIN keyStore THEN "present" ELSE "missing")

storeRest == <<now, mkCache, pinFailures, calls, setPinCalls, attempts, outcomes,
               expiredSeen, cacheHistory>>

NextKeyStore ==
    \/ (\E id \in StoreIds, blob \in StoreBlobs, meta \in StoreMetas :
           KeyStoreCreate(StoreItem(id, blob, meta)))
       /\ UNCHANGED <<storeRest, httpVars, elseVars>>
    \/ (\E id \in StoreIds, blob \in StoreBlobs, meta \in StoreMetas \cup {Undefined} :
           KeyStoreUpdate(id, blob, ToHex(Bytes("nonce")), meta))
       /\ UNCHANGED <<storeRest, httpVars, elseVars>>
    \/ (\E id \in StoreIds : KeyStoreDelete(id))
       /\ UNCHANGED <<storeRest, httpVars, elseVars>>

SpecKeyStore == Init /\ [][NextKeyStore]_vars

----------------------------------------------------------------------------
(* AsyncDbWriter: enqueue, the processQueue run, the interval timer and     *)
(* dispose.  A job is the n-th job handed to enqueue; it settles some time  *)
(* after the run called it, and it either runs to its end or throws.        *)

maxQueueSize == 2
MaxJobs == 5

Jobs(n) == {[n |-> n, fails |-> f] : f \in BOOLEAN}

QueueFull_Above(depth) == depth > maxQueueSize

\* enqueue's test for a full queue
QueueFull(depth) == depth >= maxQueueSize

\* const job = this.queue.shift(); await job(): the run takes the first job
\* of the queue, calls it and waits for it
ShiftAndCall(w) ==
    LET job == Head(w.queue)
    IN [w EXCEPT !.current = job, !.queue = Tail(w.queue),
                 !.started = Append(@, job.n), !.executing = @ \cup {job.n}]

processQueue_NoRunningGuard(w) ==
    IF Len(w.queue) = 0
    THEN w
    ELSE ShiftAndCall([w EXCEPT !.running = TRUE])

\* processQueue, from the call to its first await: nothing when a run is in
\* progress or the queue is empty, else the run starts with the first job
processQueue(w) ==
    IF w.running \/ Len(w.queue) = 0
    THEN w
    ELSE ShiftAndCall([w EXCEPT !.running = TRUE])

\* the run's finally block, at its end
EndRun(w) ==
    [w EXCEPT !.running = FALSE, !.current = NoJob,
              !.dispose = IF @ = "awaiting" THEN "resolved" ELSE @]

\* the job the run waited for has settled
Settled(w) ==
    LET n == w.current.n
    IN IF w.current.fails
       THEN [w EXCEPT !.failed = @ \cup {n}, !.executing = @ \ {n}]
       ELSE [w EXCEPT !.finished = @ \cup {n}, !.executing = @ \ {n}]

AfterJob_FailureEndsRun(w) ==
    LET done == Settled(w)
    IN IF Len(done.queue) > 0 /\ ~w.current.fails
       THEN ShiftAndCall(done)
       ELSE EndRun(done)

\* processQueue, from the job it waited for to the next await or its end: a
\* job that threw is logged; the run takes the next job, or ends
AfterJob(w) ==
    LET done == Settled(w)
    IN IF Len(done.queue) > 0
       THEN ShiftAndCall(done)
       ELSE EndRun(done)

\* enqueue(job)
Enqueue(job) ==
    /\ writer.totalJobs < MaxJobs
    /\ job.n = writer.totalJobs + 1
    /\ LET counted == [writer EXCEPT !.totalJobs = @ + 1,
                                     !.queueDepth = Len(writer.queue)]
       IN IF QueueFull(counted.queueDepth)
          THEN writer' = [counted EXCEPT !.droppedJobs = @ + 1,
                                         !.lastEnqueue = "false"]
          ELSE writer' = [processQueue([counted EXCEPT !.queue = Append(@, job),
                                                       !.accepted = @ \cup {job.n}])
                             EXCEPT !.lastEnqueue = "true"]

\* the interval timer fires
TimerFires ==
    /\ writer.intervalId
    /\ writer' = processQueue(writer)

\* the job the run waits for settles, and the run goes on
JobSettles ==
    /\ writer.running
    /\ writer.current # NoJob
    /\ writer' = AfterJob(writer)

\* dispose(): the timer is cleared and processQueue is called and awaited;
\* a call that returns at once (a run is in progress, or the queue is empty)
\* lets dispose resolve, a call that starts a run lets it resolve when the
\* run ends
Dispose ==
    /\ writer.dispose = "none"
    /\ LET stopped == [writer EXCEPT !.intervalId = FALSE]
       IN writer' = IF stopped.running \/ Len(stopped.queue) = 0
                    THEN [processQueue(stopped) EXCEPT !.dispose = "resolved"]
                    ELSE [processQueue(stopped) EXCEPT !.dispose = "awaiting"]

writerRest == <<interactions, cipherBlobs, sessionMap, monitor, kekBuffer>>

NextWriter ==
    \/ (\E n \in 1 .. MaxJobs : \E job \in Jobs(n) : Enqueue(job))
       /\ UNCHANGED <<coreVars, httpVars, writerRest>>
    \/ TimerFires /\ UNCHANGED <<coreVars, httpVars, writerRest>>
    \/ JobSettles /\ UNCHANGED <<coreVars, httpVars, writerRest>>
    \/ Dispose /\ UNCHANGED <<coreVars, httpVars, writerRest>>

SpecWriter == Init /\ [][NextWriter]_vars

\* the same, with every job that is called settling in the end
SpecWriterFair ==
    SpecWriter /\ WF_vars(JobSettles /\ UNCHANGED <<coreVars, httpVars, writerRest>>)

----------------------------------------------------------------------------
(* InteractionRepository and CipherBlobRepository: header rows and blob     *)
(* rows, written by separate statements.  The primary key of each table is  *)
(* its id: an INSERT of an id that is there fails and changes nothing.      *)

MaxChunks == 2
MaxBlobs == 2

InteractionIds == {"i1", "i2"}
BlobIds == 1 .. MaxBlobs

\* the header rows a caller may hand to InteractionRepository.create
Interactions ==
    {[id |-> id, user_id |-> 1, chunk_count |-> n] :
        id \in InteractionIds, n \in 0 .. MaxChunks}

\* the blob rows a caller may hand to CipherBlobRepository.create
CipherBlobs ==
    {[id |-> b, interaction_id |-> id, chunk_index |-> k] :
        b \in BlobIds, id \in InteractionIds, k \in 0 .. MaxChunks - 1}

\* CipherBlobRepository.findByInteractionId, as the set of the rows' ids
findByInteractionId(blobs, interactionId) ==
    {b \in DOMAIN blobs : blobs[b].interaction_id = interactionId}

\* InteractionRepository.create: the row as the caller gave it
InteractionCreate(interaction) ==
    /\ interactions' = IF interaction.id \in DOMAIN interactions
                       THEN interactions
                       ELSE interactions @@ (interaction.id :> interaction)
    /\ UNCHANGED cipherBlobs

\* CipherBlobRepository.create
CipherBlobCreate(blob) ==
    /\ cipherBlobs' = IF blob.id \in DOMAIN cipherBlobs
                      THEN cipherBlobs
                      ELSE cipherBlobs @@ (blob.id :> blob)
    /\ UNCHANGED interactions

\* CipherBlobRepository.deleteByInteractionId
DeleteByInteractionId(interactionId) ==
    /\ cipherBlobs' = [b \in DOMAIN cipherBlobs \ findByInteractionId(cipherBlobs, interactionId)
                          |-> cipherBlobs[b]]
    /\ UNCHANGED interactions

tablesRest == <<writer, sessionMap, monitor, kekBuffer>>

NextTables ==
    \/ (\E interaction \in Interactions : InteractionCreate(interaction))
       /\ UNCHANGED <<coreVars, httpVars, tablesRest>>
    \/ (\E blob \in CipherBlobs : CipherBlobCreate(blob))
       /\ UNCHANGED <<coreVars, httpVars, tablesRest>>
    \/ (\E id \in InteractionIds : DeleteByInteractionId(id))
       /\ UNCHANGED <<coreVars, httpVars, tablesRest>>

SpecTables == Init /\ [][NextTables]_vars

----------------------------------------------------------------------------
(* session.ts as such: the sessions Map by id.  A handler that saves gets   *)
(* the session of its request and saves it with the response.               *)

MaxSessionIds == 5

NoSessionId == 0

\* a session id that was never issued
UnknownSessionId == MaxSessionIds + 1

\* getSessionId: the session_id of the Cookie header, if any
SessionCookies == {NoSessionId, UnknownSessionId} \cup DOMAIN sessionMap.map

\* randomUUID(): an id that no session has
randomUUID(s) == Len(s.map) + 1

\* getSession: the stored object, or a new empty one
getSessionObject(s, cookie) ==
    IF cookie # NoSessionId /\ cookie \in DOMAIN s.map
    THEN [object |-> s.map[cookie], objects |-> s.objects]
    ELSE [object |-> s.objects + 1, objects |-> s.objects + 1]

\* saveSession: the id the session is stored under
saveSessionId(s, cookie) == randomUUID(s)

\* sessions.set(sessionId, session)
sessionsSet(map, id, object) ==
    IF id \in DOMAIN map THEN [map EXCEPT ![id] = object] ELSE Append(map, object)

\* a handler that calls getSession(req) and saveSession(res, session)
SaveRequest(cookie) ==
    /\ Len(sessionMap.map) < MaxSessionIds
    /\ LET got == getSessionObject(sessionMap, cookie)
           id == saveSessionId(sessionMap, cookie)
       IN sessionMap' = [map |-> sessionsSet(sessionMap.map, id, got.object),
                         objects |-> got.objects,
                         last |-> [carried |-> cookie, issued |-> id]]

\* a handler that only reads the session (the middleware of a guarded route)
ReadRequest(cookie) ==
    /\ sessionMap' = [sessionMap EXCEPT !.last = [carried |-> cookie, issued |-> NoSessionId]]

sessionRest == <<interactions, cipherBlobs, writer, monitor, kekBuffer>>

NextSession ==
    \/ (\E cookie \in SessionCookies : SaveRequest(cookie))
       /\ UNCHANGED <<coreVars, httpVars, sessionRest>>
    \/ (\E cookie \in SessionCookies : ReadRequest(cookie))
       /\ UNCHANGED <<coreVars, httpVars, sessionRest>>

SpecSession == Init /\ [][NextSession]_vars

----------------------------------------------------------------------------
(* The key of the rate-limit middleware.  A header value is kept as the     *)
(* list of the addresses it names, separated by commas in the header: the   *)
(* value of x-real-ip, and of an x-forwarded-for with one hop, is a list of *)
(* one address; a header that is absent or empty is the empty list.         *)

MaxForwarded == 2
MaxKeyAsks == 3

Addresses == {"203.0.113.7", "10.0.0.1"}

\* the values of an x-forwarded-for header: client first, then the proxies
ForwardedFor ==
    UNION {[1 .. n -> Addresses] : n \in 0 .. MaxForwarded}

\* the values of an x-real-ip header
RealIp == {<<>>} \cup {<<a>> : a \in Addresses}

\* req.headers.get(a) || req.headers.get(b) || "unknown": the first header
\* value that is not empty, whole
rateLimitKey(forwardedFor, realIp) ==
    IF forwardedFor # <<>> THEN forwardedFor
    ELSE IF realIp # <<>> THEN realIp
    ELSE <<"unknown">>

RECURSIVE CountedRequests(_, _)
\* the requests a limiter store has counted, over the keys given
CountedRequests(store, keys) ==
    IF keys = {} THEN 0
    ELSE LET k == CHOOSE k \in keys : TRUE
         IN store[k].count + CountedRequests(store, keys \ {k})

\* the middleware made by createRateLimitMiddleware(unlockRateLimiter), for
\* a request with these headers: the key is counted, and the request is
\* refused or handed on
LimitedRequest(forwardedFor, realIp) ==
    /\ CountedRequests(rateLimiters.unlock, DOMAIN rateLimiters.unlock) < MaxKeyAsks
    /\ LET r == limit(rateLimiters.unlock, rateLimitKey(forwardedFor, realIp), now,
                      LimiterOptions.unlock)
       IN rateLimiters' = [rateLimiters EXCEPT !.unlock = r.store]

keyRest == <<killSwitch, sessions, requests, lastResponse, arrivals>>

NextRateKey ==
    \/ (\E forwardedFor \in ForwardedFor, realIp \in RealIp :
           LimitedRequest(forwardedFor, realIp))
       /\ UNCHANGED <<coreVars, keyRest, elseVars>>

SpecRateKey == Init /\ [][NextRateKey]_vars

----------------------------------------------------------------------------
(* PersonalModeLLMMonitor: trackInteraction, getActiveSessions and the      *)
(* hourly cleanup, with the default configuration and no quota set (so      *)
(* updateQuotaUsage returns at once).                                       *)

MaxTracked == 3
MaxMonitorTicks == 2

dataRetentionDays == 7
sessionTimeoutMs == 30 * 60 * 1000
cleanupIntervalMs == 60 * 60 * 1000
dayMs == 24 * 60 * 60 * 1000

MonitorUsers == {"user-123", "user-456"}
MonitorSessions == {"session-1", "session-2"}

\* responseData is optional
NoResponseData == [tokenCount |-> 0, present |-> FALSE]

\* the interactions handed to trackInteraction
PersonalInteractions ==
    {[sessionId |-> sid, userId |-> u, requestData |-> [tokenCount |-> req],
      responseData |-> resp] :
        sid \in MonitorSessions, u \in MonitorUsers, req \in {10, 5},
        resp \in {NoResponseData, [tokenCount |-> 15, present |-> TRUE]}}

TokenCount_RequestOnly(interaction) == interaction.requestData.tokenCount

\* updateSession: interaction.requestData.tokenCount +
\* (interaction.responseData?.tokenCount || 0)
TokenCount(interaction) ==
    interaction.requestData.tokenCount +
       (IF interaction.responseData.present /\ interaction.responseData.tokenCount # 0
        THEN interaction.responseData.tokenCount ELSE 0)

\* updateSession
updateSession(map, sessionId, userId, interaction, t) ==
    IF sessionId \in DOMAIN map
    THEN [map EXCEPT ![sessionId] =
             [@ EXCEPT !.lastActivity = t,
                       !.interactionCount = @ + 1,
                       !.totalTokens = @ + TokenCount(interaction)]]
    ELSE map @@
            (sessionId :> [sessionId |-> sessionId, userId |-> userId,
                           startTime |-> t, lastActivity |-> t,
                           interactionCount |-> 1,
                           totalTokens |-> TokenCount(interaction)])

\* storeInteraction: the row inserted into personal_interactions
storeInteraction(rows, interaction, t) ==
    rows (+) SetToBag({[session_id |-> interaction.sessionId,
                        user_id |-> interaction.userId,
                        timestamp |-> t,
                        token_count |->
                           interaction.requestData.tokenCount +
                              (IF interaction.responseData.present
                               THEN interaction.responseData.tokenCount ELSE 0)]})

\* getActiveSessions(userId), as the set of the sessions returned ("" is no
\* userId: all sessions)
getActiveSessions(m, userId) ==
    {m.sessions[sid] : sid \in {id \in DOMAIN m.sessions :
                                   userId = "" \/ m.sessions[id].userId = userId}}

\* getNextResetTime(): the next midnight UTC
getNextResetTime(t) == ((t \div dayMs) + 1) * dayMs

\* setPersonalQuota(userId, quota): the quota given over the existing one, or
\* over the defaults
setPersonalQuota(quotas, userId, quota, t) ==
    LET existing == IF userId \in DOMAIN quotas THEN quotas[userId]
                    ELSE [userId |-> userId, tokensUsed |-> 0, tokensLimit |-> 10000,
                          requestsUsed |-> 0, requestsLimit |-> 100,
                          resetTime |-> getNextResetTime(t)]
    IN (userId :> (quota @@ existing)) @@ quotas

checkQuotaExceeded_Above(m, userId) ==
    IF userId \notin DOMAIN m.quotas THEN FALSE
    ELSE \/ m.quotas[userId].tokensUsed > m.quotas[userId].tokensLimit
         \/ m.quotas[userId].requestsUsed > m.quotas[userId].requestsLimit

\* checkQuotaExceeded(userId)
checkQuotaExceeded(m, userId) ==
    IF userId \notin DOMAIN m.quotas THEN FALSE
    ELSE \/ m.quotas[userId].tokensUsed >= m.quotas[userId].tokensLimit
         \/ m.quotas[userId].requestsUsed >= m.quotas[userId].requestsLimit

\* updateQuotaUsage (config.personalQuotaEnabled is true)
updateQuotaUsage(quotas, userId, requestData, responseData) ==
    IF userId \notin DOMAIN quotas THEN quotas
    ELSE [quotas EXCEPT ![userId] =
             [@ EXCEPT !.requestsUsed = @ + 1,
                       !.tokensUsed = @ + requestData.tokenCount +
                                         (IF responseData.present
                                          THEN responseData.tokenCount ELSE 0)]]

\* history: one more interaction of a user with a quota
Tracked(tracked, row) ==
    IF row.user_id \notin DOMAIN tracked THEN tracked
    ELSE [tracked EXCEPT ![row.user_id] =
             [tokens |-> @.tokens + row.token_count, requests |-> @.requests + 1]]

\* trackInteraction(interaction)
TrackInteraction(interaction) ==
    /\ BagCardinality(monitor.rows) < MaxTracked
    /\ monitor' = [monitor EXCEPT
          !.sessions = updateSession(@, interaction.sessionId, interaction.userId,
                                     interaction, now),
          !.quotas = updateQuotaUsage(@, interaction.userId, interaction.requestData,
                                      interaction.responseData),
          !.rows = storeInteraction(@, interaction, now),
          !.tracked = Tracked(@, CHOOSE row \in BagToSet(
                                    storeInteraction(EmptyBag, interaction, now)) : TRUE)]
    /\ UNCHANGED now

\* setPersonalQuota(userId, quota) is called
SetPersonalQuota(userId, quota) ==
    /\ monitor' = [monitor EXCEPT
          !.quotas = setPersonalQuota(@, userId, quota, now),
          !.tracked = IF userId \in DOMAIN @ THEN @
                      ELSE (userId :> [tokens |-> 0, requests |-> 0]) @@ @]
    /\ UNCHANGED now

\* cleanup(), at time t: rows older than the retention time and sessions idle
\* for longer than the session timeout go
cleanup(m, t) ==
    LET cutoffTime == t - dataRetentionDays * 24 * 60 * 60 * 1000
        sessionTimeout == t - sessionTimeoutMs
        oldRows == {r \in BagToSet(m.rows) : r.timestamp < cutoffTime}
        idle == {sid \in DOMAIN m.sessions :
                    m.sessions[sid].lastActivity < sessionTimeout}
        due == {u \in DOMAIN m.quotas : t >= m.quotas[u].resetTime}
    IN [sessions |-> [sid \in DOMAIN m.sessions \ idle |-> m.sessions[sid]],
        rows |-> [r \in BagToSet(m.rows) \ oldRows |-> CopiesIn(r, m.rows)],
        quotas |-> [u \in DOMAIN m.quotas |->
                       IF u \in due
                       THEN [m.quotas[u] EXCEPT !.tokensUsed = 0, !.requestsUsed = 0,
                                                !.resetTime = getNextResetTime(t)]
                       ELSE m.quotas[u]],
        expired |-> m.expired \cup idle,
        tracked |-> m.tracked]

\* an hour passes and the cleanup timer fires; history: the count of a user
\* whose quota was reset starts again
CleanupTimerFiresUntil(until) ==
    /\ now < until
    /\ now' = now + cleanupIntervalMs
    /\ LET cleaned == cleanup(monitor, now')
       IN monitor' = [cleaned EXCEPT !.tracked =
             [u \in DOMAIN @ |->
                 IF cleaned.quotas[u].resetTime # monitor.quotas[u].resetTime
                 THEN [tokens |-> 0, requests |-> 0] ELSE @[u]]]

CleanupTimerFires == CleanupTimerFiresUntil(MaxMonitorTicks * cleanupIntervalMs)

monitorRest == <<keyStore, mkCache, pinFailures, calls, setPinCalls, lastReturn,
                 attempts, outcomes, expiredSeen, cacheHistory, httpVars,
                 interactions, cipherBlobs, writer, sessionMap, kekBuffer>>

NextMonitor ==
    \/ (\E interaction \in PersonalInteractions : TrackInteraction(interaction))
       /\ UNCHANGED monitorRest
    \/ CleanupTimerFires /\ UNCHANGED monitorRest

SpecMonitor == Init /\ [][NextMonitor]_vars

\* Quotas: the monitor was made an hour before midnight UTC; the quota of
\* one user is set, and interactions of that user and of a user without a
\* quota are tracked under one session id, around the daily reset.
MaxQuotaTicks == 2

\* the quotas handed to setPersonalQuota (each a part of a PersonalQuota)
QuotaParts ==
    {[tokensLimit |-> 30, requestsLimit |-> 100],
     [tokensLimit |-> 30],
     [requestsLimit |-> 2]}

InitQuota ==
    /\ now = 23 * cleanupIntervalMs
    /\ keyStore = <<>>
    /\ mkCache = <<>>
    /\ pinFailures = <<>>
    /\ calls = EmptyBag
    /\ setPinCalls = [u \in Users |-> 0]
    /\ lastReturn = NoReturn
    /\ attempts = [u \in Users |-> [count |-> 0, last |-> 0]]
    /\ outcomes = [known |-> "none", unknown |-> "none"]
    /\ expiredSeen = {}
    /\ cacheHistory = [u \in Users |-> NoHistory]
    /\ HttpInit
    /\ ElseInit

NextQuota ==
    \/ (\E interaction \in PersonalInteractions :
           /\ interaction.sessionId = "session-1"
           /\ TrackInteraction(interaction))
       /\ UNCHANGED monitorRest
    \/ (\E quota \in QuotaParts : SetPersonalQuota("user-456", quota))
       /\ UNCHANGED monitorRest
    \/ CleanupTimerFiresUntil((23 + MaxQuotaTicks) * cleanupIntervalMs)
       /\ UNCHANGED monitorRest

SpecQuota == InitQuota /\ [][NextQuota]_vars

----------------------------------------------------------------------------
(* RateLimiter.limit as such: calls on the export limiter (2 requests a     *)
(* minute) with two keys, the clock in steps of a third of the window.      *)

MaxRefusals == 2

\* exportRateLimiter.limit(key) is called; the response keeps what the call
\* found under the key, and whether it let the request through
LimitCall(key) ==
    LET store == rateLimiters.export
        r == limit(store, key, now, LimiterOptions.export)
    IN /\ key \in DOMAIN store =>
             \/ store[key].count < exportMaxRequests + MaxRefusals
             \/ now - store[key].startTime > windowMs
       /\ rateLimiters' = [rateLimiters EXCEPT !.export = r.store]
       /\ lastResponse' = Response("limit", key, NoCookie,
                                   IF r.limited THEN "TooManyRequests" ELSE "handler",
                                   ~r.limited, FALSE,
                                   IF key \in DOMAIN store THEN store[key]
                                   ELSE [count |-> 0, startTime |-> now])
       /\ UNCHANGED <<coreVars, killSwitch, sessions, requests, arrivals>>

NextLimit ==
    \/ (\E key \in Addresses : LimitCall(key)) /\ UNCHANGED elseVars
    \/ Advance(RateStep, MaxRateTicks * RateStep) /\ UNCHANGED elseVars

SpecLimit == Init /\ [][NextLimit]_vars


----------------------------------------------------------------------------
(* unlockWithPin: overlapping calls *)

\* calls that may be suspended in the key derivation at the same time
MaxOverlap == 6

\* how many calls for u wait in the key derivation with a PIN that is not
\* the one given to setPin
WrongInDerivation(u) ==
    LET waiting == {c \in InFlight : /\ c.pc = "unlock_derive"
                                     /\ c.userId = u
                                     /\ c.pin # ProvisionedPin(keyStore, u)}
    IN BagCardinality([c \in waiting |-> calls[c]])

\* several unlockWithPin calls suspended at once, the clock standing still:
\* every attempt falls into one lockout window
NextOverlap ==
    \/ (\E u \in Users, pin \in Pins : SetPinBegin(1, u, pin)) /\ UNCHANGED <<httpVars, elseVars>>
    \/ (\E c \in InFlight : SetPinFinish(c)) /\ UNCHANGED <<httpVars, elseVars>>
    \/ (\E u \in Users, pin \in Pins : UnlockStart(MaxOverlap, u, pin)) /\ UNCHANGED <<httpVars, elseVars>>
    \/ (\E c \in InFlight : UnlockDummyFinish(c)) /\ UNCHANGED <<httpVars, dataVars>>
    \/ (\E c \in InFlight : UnlockFinish(c, TRUE)) /\ UNCHANGED <<httpVars, dataVars>>

SpecOverlap == Init /\ [][NextOverlap]_vars


----------------------------------------------------------------------------
(* unlockWithPin: calls made during a lockout *)

LockedPin == "1234"
LockedCounts == {maxPinAttempts - 1, maxPinAttempts, maxPinAttempts + 1}

\* a provisioned user with a failure record on file, the last attempt made
\* just less than the lockout window ago
InitLocked ==
    /\ now = TimeStep
    /\ keyStore = [id \in {DekId(u) : u \in Users} \cup {MkPinId(u) : u \in Users} |->
                      IF id[1] = "dek" THEN DekItem(id[2], 1)
                      ELSE MkPinItem(id[2], 1, LockedPin)]
    /\ mkCache = <<>>
    /\ \E count \in LockedCounts :
          /\ pinFailures = [u \in Users |-> [count |-> count, lastAttempt |-> 1]]
          /\ attempts = [u \in Users |->
                            [count |-> IF count < maxPinAttempts THEN count
                                       ELSE maxPinAttempts,
                             last |-> 1]]
    /\ calls = EmptyBag
    /\ setPinCalls = [u \in Users |-> 1]
    /\ lastReturn = NoReturn
    /\ outcomes = [known |-> "none", unknown |-> "none"]
    /\ expiredSeen = {}
    /\ cacheHistory = [u \in Users |-> NoHistory]
    /\ HttpInit
    /\ ElseInit

NextLocked ==
    \/ (\E u \in Users, pin \in Pins : UnlockStart(MaxCalls, u, pin)) /\ UNCHANGED <<httpVars, elseVars>>
    \/ (\E c \in InFlight : UnlockFinish(c, TRUE)) /\ UNCHANGED <<httpVars, dataVars>>
    \/ (\E u \in Users : GetDecryptedDek(u)) /\ UNCHANGED <<httpVars, elseVars>>
    \/ Tick /\ UNCHANGED <<httpVars, elseVars>>

SpecLocked == InitLocked /\ [][NextLocked]_vars

----------------------------------------------------------------------------
(* Claims *)

AllUsers == DOMAIN cacheHistory

EntryOf(cache, u) == cache[CacheIndex(cache, u)]

\* C1: once 5 wrong-PIN attempts have been made for a user and less than 15
\* minutes have passed since the last of them, the next unlockWithPin call
\* fails with AccountLocked whatever the PIN and caches nothing: no such call
\* gets past the lockout test into the key derivation, and the caller gets
\* AccountLocked.
C1_LockedAfterFiveWrongPins ==
    /\ \A c \in InFlight : c.expect # "locked"
    /\ (lastReturn.op = "unlockWithPin" /\ lastReturn.note = "locked")
          => lastReturn.result = "AccountLocked"

\* C2: for a provisioned user that is not locked out, unlockWithPin returns
\* true exactly when the PIN is the one given to setPin, and a wrong PIN
\* leaves the MK cache as it was.
C2_TrueIffPinOfSetPin ==
    [][\A c \in InFlight :
          UnlockFinish(c, FALSE) =>
             LET u == c.userId
                 right == c.pin = ProvisionedPin(keyStore, u)
             IN /\ (lastReturn'.result = "true") <=> right
                /\ ~right => mkCache' = mkCache]_vars

\* C3: a wrong-PIN unlockWithPin call for a provisioned user that is not
\* locked out returns false, raises the user's failure count by exactly one
\* and sets lastAttempt to the current time.
C3_WrongPinCounted ==
    [][\A c \in InFlight :
          (UnlockFinish(c, FALSE)
              /\ c.pin # ProvisionedPin(keyStore, c.userId)) =>
             LET u == c.userId
             IN /\ lastReturn'.result = "false"
                /\ u \in DOMAIN pinFailures'
                /\ pinFailures'[u].count = FailureCount(pinFailures, u) + 1
                /\ pinFailures'[u].lastAttempt = now]_vars

\* C4: after a lockout (5 wrong PINs), once 15 minutes have passed since the
\* last failed attempt, unlockWithPin with the correct PIN returns true,
\* caches the MK and removes the user's failure record.
C4_CorrectPinAfterLockout ==
    [][\A c \in InFlight :
          (UnlockFinish(c, TRUE)
              /\ c.expect = "afterLockout"
              /\ c.pin = ProvisionedPin(keyStore, c.userId)) =>
             LET u == c.userId
             IN /\ lastReturn'.result = "true"
                /\ u \in CacheUsers(mkCache')
                /\ EntryOf(mkCache', u).key.t = "bytes"
                /\ EntryOf(mkCache', u).key = ProvisionedMk(keyStore, u)
                /\ u \notin DOMAIN pinFailures']_vars

\* C5: concurrent unlockWithPin calls for one user are serialized; in
\* particular a wrong-PIN attempt that overlaps another call for the same
\* user still raises the failure count by one (no lost update).
C5_OverlappingAttemptsCounted ==
    [][\A c, d \in InFlight :
          (/\ c # d \/ CopiesIn(c, calls) > 1
           /\ UnlockFinish(c, FALSE)
           /\ c.pin # ProvisionedPin(keyStore, c.userId)
           /\ d.pc = "unlock_derive"
           /\ d.userId = c.userId) =>
             FailureCount(pinFailures', c.userId)
                = FailureCount(pinFailures, c.userId) + 1]_vars

\* C6: getDecryptedDek returns a DEK exactly when an unexpired MK entry of
\* the user is cached (None before any unlock), and what it returns is the
\* DEK that setPin generated for the user.
C6_DekIffMkCached ==
    lastReturn.op = "getDecryptedDek" =>
       /\ (lastReturn.result = "value") <=> (lastReturn.note = "fresh")
       /\ lastReturn.result = "value" =>
             /\ lastReturn.value.t = "bytes"
             /\ lastReturn.value = ProvisionedDek(keyStore, lastReturn.userId)

C8_ReadRefreshesTtl ==
    [][\A u \in AllUsers :
          GetDecryptedDek(u) =>
             /\ lastReturn'.result = "value" =>
                   /\ u \in CacheUsers(mkCache')
                   /\ EntryOf(mkCache', u).expires = now + mkCacheTTL
             /\ IdleState(mkCache, cacheHistory, u, now) = "fresh" =>
                   lastReturn'.result = "value"]_vars

\* C8 witness: a read is served more than 30 minutes after the unlock that
\* cached the entry
C8_Witness ==
    /\ lastReturn.op = "getDecryptedDek"
    /\ lastReturn.result = "value"
    /\ now - cacheHistory[lastReturn.userId].cachedAt > mkCacheTTL

\* C9: the MK cache never holds more than 100 entries, and caching the MK of
\* a user not in the cache while it holds 100 entries evicts exactly the
\* earliest-inserted entry: the others stay, in their order, and the new
\* entry goes last.
C9_CapacityFifo ==
    /\ [](Len(mkCache) <= mkCacheCapacity)
    /\ [][\A c \in InFlight :
             (/\ UnlockFinish(c, FALSE)
              /\ Len(mkCache) = mkCacheCapacity
              /\ c.userId \notin CacheUsers(mkCache)) =>
                /\ Len(mkCache') = mkCacheCapacity
                /\ SubSeq(mkCache', 1, mkCacheCapacity - 1) = Tail(mkCache)
                /\ mkCache'[mkCacheCapacity].userId = c.userId
                /\ mkCache[1].userId \notin CacheUsers(mkCache')]_vars

\* C9 witness: the cache is full, the last user's MK has just been cached
\* and the first user's entry, which nothing has let expire, is gone
C9_Witness ==
    /\ now = 0
    /\ Len(mkCache) = mkCacheCapacity
    /\ lastReturn.op = "unlockWithPin"
    /\ lastReturn.userId = mkCacheCapacity + 1
    /\ mkCache[mkCacheCapacity].userId = mkCacheCapacity + 1
    /\ 1 \notin CacheUsers(mkCache)

\* C10: the caller cannot tell "no such user" from "wrong PIN": the first
\* wrong-PIN call on a provisioned user and the first call on a user with no
\* mk_pin record (neither can be locked out yet) have the same outcome.
C10_UnknownUserLooksLikeWrongPin ==
    (outcomes.known # "none" /\ outcomes.unknown # "none")
       => outcomes.known = outcomes.unknown

\* C20: in every state another operation can observe, also while setPin is
\* suspended between its steps, the record dek_<u> exists exactly when
\* mk_pin_<u> exists (the two key-store writes of setPin are applied together
\* or not at all).
C20_DekIffProvisioned ==
    \A u \in AllUsers : (DekId(u) \in DOMAIN keyStore) <=> Provisioned(keyStore, u)

\* C11: the rate limiter is a sliding window: for every limiter and key, no
\* 60-second interval holds more than maxRequests requests that the limiter
\* let through (5 for unlock, 2 for export).
C11_SlidingWindow ==
    \A l \in LimiterNames, ip \in Ips :
       LET passed == arrivals[l][ip].admitted IN
       \A i \in 1 .. Len(passed) :
          Cardinality({j \in 1 .. Len(passed) :
                          /\ passed[j] >= passed[i]
                          /\ passed[j] < passed[i] + LimiterOptions[l].windowMs})
             <= LimiterOptions[l].maxRequests

\* C12: of the POSTs to /unlock/pin from one address, none of them stopped by
\* the kill switch, the first 5 reach the unlock handler, and a further one
\* within 60 seconds of the first fails with TooManyRequests without the
\* Unlock Service being invoked: no call is started and the PIN failures stay
\* as they were.
C12_SixthPostRefused ==
    [][\A ip \in Ips, cookie \in Cookies :
          LET route == "POST:/unlock/pin"
              before == arrivals["unlock"][ip]
              early == before.count < unlockMaxRequests
              sixth == /\ before.count >= unlockMaxRequests
                       /\ now - before.first <= windowMs
          IN (~killSwitch /\ ~before.killed) =>
                /\ (Refused(route, ip, cookie) /\ early) => FALSE
                /\ (Refused(route, ip, cookie) /\ sixth) =>
                      /\ lastResponse'.status = "TooManyRequests"
                      /\ ~lastResponse'.handled
                      /\ calls' = calls
                      /\ pinFailures' = pinFailures
                /\ \A u \in Users, pin \in Pins :
                      HttpUnlockPinStart(1, ip, cookie, u, pin) => ~sixth]_vars

\* C12 witness: the sixth POST within 60 seconds has been refused after five
\* that reached the handler
C12_Witness ==
    \E ip \in Ips :
       /\ lastResponse.route = "POST:/unlock/pin"
       /\ lastResponse.ip = ip
       /\ lastResponse.status = "TooManyRequests"
       /\ arrivals["unlock"][ip].count = unlockMaxRequests + 1
       /\ Len(arrivals["unlock"][ip].admitted) = unlockMaxRequests
       /\ now - arrivals["unlock"][ip].first <= windowMs

\* C16: GET /decrypt/:id is served only when the MK of the session's user is
\* in the cache: a request without a session user, or for a user whose MK is
\* not cached, is refused.
C16_DecryptOnlyUnlocked ==
    (lastResponse.route = "GET:/decrypt/:id" /\ lastResponse.handled)
       => (lastResponse.met.userId # NoUser /\ lastResponse.met.unlocked)

\* C13: while the kill switch is enabled, a request to any of the routes
\* wrapped by it (the unlock routes, export, rotate-key, decrypt) fails with
\* ServiceUnavailable and its handler is not invoked; while it is disabled,
\* the request is passed on to what the kill switch wraps.
C13_KillSwitchStopsWrappedRoutes ==
    LET wrapped == {"POST:/unlock/pin", "POST:/unlock/webauthn/challenge",
                    "POST:/unlock/webauthn/finish", "GET:/export",
                    "POST:/rotate-key", "GET:/decrypt/:id"}
    IN lastResponse.route \in wrapped =>
          IF lastResponse.met.killSwitch
          THEN lastResponse.status = "ServiceUnavailable" /\ ~lastResponse.handled
          ELSE lastResponse.status # "ServiceUnavailable"

\* C13 witness: with the kill switch enabled, a request to the decrypt route
\* has been refused with ServiceUnavailable
C13_Witness ==
    /\ killSwitch
    /\ lastResponse.route = "GET:/decrypt/:id"
    /\ lastResponse.met.killSwitch
    /\ lastResponse.status = "ServiceUnavailable"

\* C14: a request that comes to require_fresh_webauthn (on the kill-switch
\* admin route, export, rotate-key) is rejected with Forbidden exactly when
\* the session's lastUVAt is unset or more than 5 minutes older than now;
\* otherwise the handler is invoked.
C14_FreshWebAuthnGate ==
    [][\A ip \in Ips, cookie \in Cookies :
          LET session == getSession(cookie)
              stale == \/ session.lastUVAt = NoTime
                       \/ now - session.lastUVAt > 5 * 60 * 1000
              atGate == lastResponse'.status \notin {"ServiceUnavailable", "TooManyRequests"}
              gate == /\ lastResponse'.status = "Forbidden" <=> stale
                      /\ ~stale => lastResponse'.handled
                      /\ stale => ~lastResponse'.handled
          IN /\ \A route \in {"POST:/api/admin/kill-switch", "GET:/export", "POST:/rotate-key"} :
                   (Refused(route, ip, cookie) /\ atGate) => gate
             /\ \A route \in {"GET:/export", "POST:/rotate-key"} :
                   HttpPlain(route, ip, cookie) => gate
             /\ \A enabled \in BOOLEAN : HttpSetKillSwitch(ip, cookie, enabled) => gate]_vars

\* C14 witness: the handler of rotate-key has run for a session whose
\* lastUVAt is exactly 5 minutes old
C14_Witness ==
    /\ lastResponse.route = "POST:/rotate-key"
    /\ lastResponse.handled
    /\ lastResponse.met.lastUVAt # NoTime
    /\ now - lastResponse.met.lastUVAt = 5 * 60 * 1000

\* C15: the handlers of GET /export, POST /rotate-key and
\* POST /api/admin/kill-switch run only for a session in which a WebAuthn
\* user verification succeeded within the last 5 minutes.
C15_PrivilegedNeedFreshUV ==
    [][\A ip \in Ips, cookie \in Cookies :
          LET session == getSession(cookie)
              verified == /\ session.verifiedAt # NoTime
                          /\ now - session.verifiedAt <= 5 * 60 * 1000
          IN /\ \A route \in {"GET:/export", "POST:/rotate-key"} :
                   HttpPlain(route, ip, cookie) => verified
             /\ \A enabled \in BOOLEAN :
                   HttpSetKillSwitch(ip, cookie, enabled) => verified]_vars

\* C15 witness: the kill-switch handler has run, for a session verified
\* within the last 5 minutes, and enabled the switch
C15_Witness ==
    /\ killSwitch
    /\ lastResponse.route = "POST:/api/admin/kill-switch"
    /\ lastResponse.handled
    /\ lastResponse.cookie # NoCookie
    /\ getSession(lastResponse.cookie).verifiedAt # NoTime
    /\ now - getSession(lastResponse.cookie).verifiedAt <= 5 * 60 * 1000

\* C17: lastUVAt of a session is set only by a successful
\* /unlock/webauthn/finish, to the time of that success; a PIN unlock, a
\* failed finish and a challenge request never set or advance it.
C17_LastUVAtOnlyByFinish ==
    [][/\ \A i \in DOMAIN sessions' :
             LET old == IF i \in DOMAIN sessions THEN sessions[i] ELSE EmptySession IN
             sessions'[i].lastUVAt # old.lastUVAt =>
                /\ sessions'[i].lastUVAt = now
                /\ \E r \in BagToSet(requests) :
                      /\ HttpWebAuthnFinish(r)
                      /\ lastResponse'.success
                      /\ i = IF r.cookie = NoCookie THEN Len(sessions') ELSE r.cookie
       /\ \A r \in BagToSet(requests) :
             (HttpWebAuthnFinish(r) /\ lastResponse'.success) =>
                sessions'[IF r.cookie = NoCookie THEN Len(sessions') ELSE r.cookie].lastUVAt
                   = now]_vars

\* C17 witness: a PIN unlock has succeeded in a session whose lastUVAt was
\* set by an earlier WebAuthn finish, and lastUVAt is still that earlier time
C17_Witness ==
    /\ lastResponse.route = "POST:/unlock/pin"
    /\ lastResponse.success
    /\ lastResponse.cookie # NoCookie
    /\ getSession(lastResponse.cookie).lastUVAt # NoTime
    /\ getSession(lastResponse.cookie).lastUVAt < now

\* C18: the stored signature counter of an authenticator changes only when
\* an assertion verifies, and then to a newCounter strictly greater than the
\* counter stored before; an assertion whose counter is not greater than the
\* stored one does not unlock and changes no state.
C18_CounterStrictlyIncreases ==
    [][\A u \in Users, credentialId \in Credentials :
          LET before == StoredCounter(keyStore, u, credentialId)
              after == StoredCounter(keyStore', u, credentialId)
          IN /\ after # before => after > before
             /\ \A r \in BagToSet(requests) :
                   (/\ r.route = "POST:/unlock/webauthn/finish"
                    /\ r.call.userId = u
                    /\ r.call.assertion.id = credentialId
                    /\ r.call.assertion.counter <= before
                    /\ HttpWebAuthnVerified(r))
                      => /\ requests' = requests (-) SetToBag({r})
                         /\ ~lastResponse'.success
                         /\ UNCHANGED <<keyStore, mkCache, sessions>>]_vars

\* C19: unlock_with_webauthn turns a cryptographic failure into false: when
\* the KEK derived from the assertion does not unwrap mk_fido_<u>, the call
\* returns false and makes no cache entry.
C19_WebAuthnCryptoFailureIsFalse ==
    [][\A r \in BagToSet(requests) :
          LET wrappedMkItem == findById(keyStore, MkFidoId(r.call.userId)) IN
          (/\ r.route = "POST:/unlock/webauthn/finish"
           /\ HttpWebAuthnFinish(r)
           /\ wrappedMkItem # Null
           /\ ~Unwraps(wrappedMkItem, AssertionKek(r.call.assertion, r.call.fido2Key)))
             => /\ lastReturn'.result = "false"
                /\ mkCache' = mkCache]_vars

\* C21: setPin for a user who is already provisioned fails with Conflict and
\* leaves dek_<u> and mk_pin_<u> as they were, so that afterwards the original
\* PIN still unlocks and the DEK handed out is the original one.
C21_SecondSetPinConflicts ==
    [][\A u \in AllUsers :
          Provisioned(keyStore, u) =>
             /\ \A pin \in Pins :
                   SetPinBegin(MaxCalls, u, pin) =>
                      /\ lastReturn'.result = "Conflict"
                      /\ keyStore' = keyStore
             /\ (/\ setPinCalls[u] > 1
                 /\ lastReturn.op = "unlockWithPin"
                 /\ lastReturn.userId = u
                 /\ lastReturn.pin = ProvisionedPin(keyStore, u)
                 /\ GetDecryptedDek(u))
                   => /\ lastReturn.result = "true"
                      /\ lastReturn'.value = ProvisionedDek(keyStore, u)]_vars

\* C28: on every exit path of unlockWithPin on which a KEK was derived
\* (success, wrong PIN, missing record with the dummy derivation), the KEK
\* buffer has been zeroized when the call returns.
C28_KekZeroizedOnReturn ==
    [][\A c \in InFlight :
          /\ UnlockFinish(c, FALSE) => kekBuffer' = Zeroized
          /\ (UnlockDummyFinish(c) /\ lastReturn'.result = "false")
                => kekBuffer' = Zeroized]_vars

\* C22: KeyStoreRepository.update of an id that no row has fails with
\* NotFound and leaves the key store as it was.
C22_UpdateMissingIsNotFound ==
    [][\A id \in StoreIds, blob \in StoreBlobs, meta \in StoreMetas :
          (/\ id \notin DOMAIN keyStore
           /\ KeyStoreUpdate(id, blob, ToHex(Bytes("nonce")), meta))
             => /\ lastReturn'.result = "NotFound"
                /\ keyStore' = keyStore]_vars

\* C23: the write queue never holds more than maxQueueSize jobs, and
\* totalJobs is always the accepted jobs plus droppedJobs; an enqueue on a
\* full queue leaves the queue alone, adds one to droppedJobs and returns
\* false, and every other enqueue appends the job and returns true.
C23_BoundedQueue ==
    /\ [](/\ Len(writer.queue) <= maxQueueSize
          /\ writer.totalJobs = Cardinality(writer.accepted) + writer.droppedJobs)
    /\ [][\A n \in 1 .. MaxJobs : \A job \in Jobs(n) :
             Enqueue(job) =>
                IF Len(writer.queue) = maxQueueSize
                THEN /\ writer'.queue = writer.queue
                     /\ writer'.current = writer.current
                     /\ job.n \notin writer'.accepted
                     /\ writer'.droppedJobs = writer.droppedJobs + 1
                     /\ writer'.lastEnqueue = "false"
                ELSE /\ Append(writer.queue, job) =
                           IF writer.running THEN writer'.queue
                           ELSE <<writer'.current>> \o writer'.queue
                     /\ job.n \in writer'.accepted
                     /\ writer'.droppedJobs = writer.droppedJobs
                     /\ writer'.lastEnqueue = "true"]_vars

C23_Witness ==
    /\ writer.lastEnqueue = "false"
    /\ writer.droppedJobs = 1
    /\ Len(writer.queue) = maxQueueSize
    /\ Cardinality(writer.accepted) = maxQueueSize + 1

\* C24: when dispose() resolves, the queue is empty and every job that
\* enqueue accepted has finished executing, also when dispose was called
\* while a processQueue run was in progress.
C24_DisposeFlushes ==
    [][(writer.dispose # "resolved" /\ writer'.dispose = "resolved")
          => /\ Len(writer'.queue) = 0
             /\ writer'.accepted = writer'.finished \cup writer'.failed]_vars

\* C25: a job that fails is executed again later: when the run has seen it
\* throw, the job is back in the queue or is the job the run takes next.
C25_FailedJobRetried ==
    [][(JobSettles /\ writer.current.fails)
          => \/ writer'.current = writer.current
             \/ \E i \in 1 .. Len(writer'.queue) : writer'.queue[i] = writer.current]_vars

\* C26: every stored interaction header has a chunk_count equal to the
\* number of cipher-blob rows with its interaction_id.
C26_ChunkCountMatchesBlobs ==
    \A id \in DOMAIN interactions :
        interactions[id].chunk_count =
            Cardinality(findByInteractionId(cipherBlobs, id))

\* C27: a save for a request whose session_id cookie names a stored session
\* stores the session under that same id: the Map gets no new id and the
\* response gives the client the id it sent.
C27_SaveReusesSessionId ==
    [][\A cookie \in DOMAIN sessionMap.map :
          SaveRequest(cookie) =>
             /\ Len(sessionMap'.map) = Len(sessionMap.map)
             /\ sessionMap'.last.issued = cookie]_vars

\* C29: the request is counted under the first address of its
\* x-forwarded-for header, else under its x-real-ip, else under "unknown"
\* (so requests whose x-forwarded-for lists start with the same address
\* share one counter).
C29_KeyIsFirstForwardedAddress ==
    [][\A forwardedFor \in ForwardedFor, realIp \in RealIp :
          LimitedRequest(forwardedFor, realIp) =>
             LET key == IF forwardedFor # <<>> THEN <<Head(forwardedFor)>>
                        ELSE IF realIp # <<>> THEN realIp
                        ELSE <<"unknown">>
             IN rateLimiters'.unlock =
                   limit(rateLimiters.unlock, key, now, LimiterOptions.unlock).store]_vars

RECURSIVE RowTokens(_, _)
\* the token counts of the rows given, each as often as the table has it
RowTokens(rows, set) ==
    IF set = {} THEN 0
    ELSE LET r == CHOOSE r \in set : TRUE
         IN r.token_count * CopiesIn(r, rows) + RowTokens(rows, set \ {r})

RowsOfSession(sid) == {r \in BagToSet(monitor.rows) : r.session_id = sid}

RECURSIVE RowCount(_, _)
RowCount(rows, set) ==
    IF set = {} THEN 0
    ELSE LET r == CHOOSE r \in set : TRUE
         IN CopiesIn(r, rows) + RowCount(rows, set \ {r})

C37_InOrderOneAtATime ==
    /\ Cardinality(writer.executing) <= 1
    /\ \A i \in 1 .. Len(writer.started) :
          /\ writer.started[i] \in writer.accepted
          /\ \A n \in writer.accepted :
                n < writer.started[i] => \E j \in 1 .. i - 1 : writer.started[j] = n

\* three jobs accepted while the first was executing and the timer firing;
\* two have settled and the third is executing, after dispose
C37_Witness ==
    /\ Len(writer.started) = 3
    /\ Cardinality(writer.finished \cup writer.failed) = 2
    /\ Cardinality(writer.executing) = 1
    /\ writer.dispose # "none"

\* C38: every job that enqueue accepted is called exactly once and
\* eventually settles, whether or not a job before it threw; when a job has
\* thrown, the run goes on with the queue and the running flag comes down.
C38_EveryAcceptedJobRunsOnce ==
    /\ [](\A i, j \in 1 .. Len(writer.started) :
             writer.started[i] = writer.started[j] => i = j)
    /\ \A n \in 1 .. MaxJobs :
          (n \in writer.accepted) ~> (n \in writer.finished \cup writer.failed)
    /\ (writer.failed # {}) ~> (~writer.running /\ Len(writer.queue) = 0)

\* a job threw, a job accepted after it ran to its end, and the run is over
C38_Witness ==
    /\ \E m \in writer.failed : \E n \in writer.finished : m < n
    /\ ~writer.running
    /\ writer.accepted = writer.finished \cup writer.failed

\* C31: for a user with a quota, checkQuotaExceeded is true exactly when the
\* tokens tracked since the quota was set or last reset have reached
\* tokensLimit or the requests tracked since have reached requestsLimit; for
\* a user without a quota it is false.
C31_QuotaExceededIffReached ==
    \A u \in MonitorUsers :
        checkQuotaExceeded(monitor, u) =
           IF u \in DOMAIN monitor.quotas
           THEN \/ monitor.tracked[u].tokens >= monitor.quotas[u].tokensLimit
                \/ monitor.tracked[u].requests >= monitor.quotas[u].requestsLimit
           ELSE FALSE

\* a quota that two interactions have filled exactly, and was not exceeded
\* before the second, next to a user without a quota who tracked as well
C31_Witness ==
    /\ "user-456" \in DOMAIN monitor.quotas
    /\ monitor.tracked["user-456"].tokens = monitor.quotas["user-456"].tokensLimit
    /\ monitor.tracked["user-456"].requests = 2
    /\ monitor.quotas["user-456"].requestsLimit > 2
    /\ checkQuotaExceeded(monitor, "user-456")
    /\ "user-123" \notin DOMAIN monitor.quotas
    /\ \E r \in BagToSet(monitor.rows) : r.user_id = "user-123"

\* C40: KeyStoreRepository.update called without a meta argument replaces
\* blob and nonce of the record and leaves its meta as it was.
C40_UpdateWithoutMetaKeepsMeta ==
    [][\A id \in DOMAIN keyStore, blob \in StoreBlobs :
          KeyStoreUpdate(id, blob, ToHex(Bytes("nonce")), Undefined)
             => /\ keyStore'[id].blob = blob
                /\ keyStore'[id].meta = keyStore[id].meta]_vars

\* C39: a call for a key more than windowMs after the start of the key's
\* window is let through and starts a new window, however many calls were
\* refused before; a refused call leaves the start of the window where it
\* was; a call for one key leaves the entries of all other keys alone.
C39_WindowEndsForRefusedKey ==
    [][\A key \in Addresses :
          LimitCall(key) =>
             LET store == rateLimiters.export
                 after == rateLimiters'.export
             IN /\ (key \in DOMAIN store /\ now - store[key].startTime > windowMs)
                      => /\ lastResponse'.status = "handler"
                         /\ after[key] = [count |-> 1, startTime |-> now]
                /\ (key \in DOMAIN store /\ lastResponse'.status = "TooManyRequests")
                      => after[key].startTime = store[key].startTime
                /\ DOMAIN after = DOMAIN store \cup {key}
                /\ \A other \in DOMAIN store \ {key} : after[other] = store[other]]_vars

\* a key that had been refused twice is let through after its window, while
\* the other key is in a window of its own
C39_Witness ==
    /\ lastResponse.route = "limit"
    /\ lastResponse.status = "handler"
    /\ lastResponse.met.count = exportMaxRequests + MaxRefusals
    /\ now - lastResponse.met.startTime > windowMs
    /\ rateLimiters.export[lastResponse.ip] = [count |-> 1, startTime |-> now]
    /\ \E other \in DOMAIN rateLimiters.export \ {lastResponse.ip} :
          rateLimiters.export[other].count > exportMaxRequests


\* C35: a successful unlockWithPin for a user whose MK is already in the
\* cache leaves the cache entry of every other user in place, also when the
\* cache holds mkCacheCapacity entries.
C35_RecachingEvictsNobody ==
    [][\A c \in InFlight :
          (UnlockFinish(c, FALSE) /\ c.userId \in CacheUsers(mkCache)
              /\ lastReturn'.result = "true") =>
             \A v \in CacheUsers(mkCache) \ {c.userId} :
                /\ v \in CacheUsers(mkCache')
                /\ EntryOf(mkCache', v) = EntryOf(mkCache, v)]_vars


\* C32: in any interleaving of unlockWithPin calls for one user, at most
\* maxPinAttempts wrong-PIN attempts get past the lockout test into the key
\* derivation within one lockout window unless a correct-PIN unlock comes in
\* between: the wrong attempts settled since the last correct PIN plus the
\* wrong attempts waiting in the derivation never exceed the threshold.
C32_OverlapWithinThreshold ==
    \A u \in Users :
       Provisioned(keyStore, u) =>
          attempts[u].count + WrongInDerivation(u) <= maxPinAttempts


\* C33: a user's PIN failure count goes down only by being cleared on a
\* successful unlock, the passing of time leaves the failure records alone,
\* and a single wrong PIN submitted once the lockout window has passed (the
\* five earlier wrong attempts still counted) leaves the account locked out.
C33_StaleCountRelocks ==
    [][/\ Tick => pinFailures' = pinFailures
       /\ \A c \in InFlight :
             UnlockFinish(c, TRUE) =>
                LET u == c.userId IN
                /\ FailureCount(pinFailures', u) < FailureCount(pinFailures, u)
                      => /\ lastReturn'.result = "true"
                         /\ FailureCount(pinFailures', u) = 0
                /\ (c.expect = "afterLockout" /\ c.pin # ProvisionedPin(keyStore, u))
                      => IsLockedOut(PinFailuresGet(pinFailures', u), now')]_vars


C36_KillSwitchCanBeDisabled ==
    killSwitch =>
       \/ \E ip \in Ips, cookie \in Cookies :
             RunGuards(RouteGuards("POST:/api/admin/kill-switch"), ip,
                       getSession(cookie), killSwitch, rateLimiters, now).status
                = "handler"
       \/ \E ip \in Ips, cookie \in Cookies :
             RunGuards(RouteGuards("POST:/unlock/webauthn/finish"), ip,
                       getSession(cookie), killSwitch, rateLimiters, now).status
                # "ServiceUnavailable"

====
